---- MODULE Spec2Model ----
(***************************************************************************)
(* Role-based tool authorization of the fastMCP / Azure AD gateway.        *)
(*                                                                         *)
(* The model follows backend/app/core/authorization_middleware.py: one     *)
(* long-lived AuthorizationMiddleware instance whose caller context        *)
(* (claims, roles, user_id, oid) is rewritten by on_request, and whose     *)
(* on_list_tools / on_call_tool hooks read that context.  The tool         *)
(* registry (fastMCP's tool manager) is the live set of registered tools;  *)
(* on_list_tools removes from it every tool it filtered out.               *)
(*                                                                         *)
(* Tool names are sequences of the words between underscores, so that      *)
(* "admin_weather_stats" is <<"admin", "weather", "stats">> and the        *)
(* prefix test startswith("admin_") is a test on the first word.           *)
(***************************************************************************)
EXTENDS Integers, Sequences, FiniteSets, TLC

VARIABLES
    supplied_mappings,  \* the role_mappings argument given to __init__
    role_mappings,      \* self.role_mappings
    claims,             \* self.claims
    roles,              \* self.roles
    user_id,            \* self.user_id
    oid,                \* self.oid
    tool_manager,       \* names of the tools the registry currently holds
    pc,                 \* "idle", "call_next" once on_request has run,
                        \* "respond" once the hook has finished
    response,           \* what the last completed hook returned or raised
    request,            \* the credential of the request in flight
    permissions,        \* what the last get_user_permissions() returned
    inflight,           \* concurrent requests: position and locals of each
    responses,          \* concurrent requests: what each one got back
    redis,              \* backing store: key -> value and expiry time
    now,                \* time.time(), in seconds
    store_response,     \* what the last credential-store call returned
    issued,             \* auth code -> what set_auth_code last stored for it
    attempts,           \* concurrent /auth/exchange calls: position and locals
    redis_up,           \* the Redis server answers the client
    redis_token_store,  \* self.redis_token_store of the middleware
    racers,             \* concurrent token/session calls: position and locals
    processes,          \* MCPServerManager.processes: server name -> process
    os_processes,       \* the processes launched: state, and the server inside
    start_calls,        \* start_server calls: position and locals of each
    manager_response    \* what the last call of the manager returned

\* The middleware instance and the tool registry.
shared_vars == <<supplied_mappings, role_mappings, claims, roles, user_id, oid,
                 tool_manager>>

\* One request at a time.
seq_vars == <<pc, response, request, permissions>>

\* Requests that overlap.
conc_vars == <<inflight, responses>>

\* The credential store and its clients.
store_vars == <<redis, now, store_response, issued, attempts, redis_up,
                redis_token_store, racers>>

\* The server manager and the processes it launches.
server_vars == <<processes, os_processes, start_calls, manager_response>>

vars == <<shared_vars, seq_vars, conc_vars, store_vars, server_vars>>

(***************************************************************************)
(* Bounds                                                                  *)
(***************************************************************************)
\* how many times the clock of the credential store moves on
MaxTicks == 2

\* readings of time.time() per second: a time is a whole number of these
Second == 2

\* longest roles claim a credential carries
MaxRoles == 2

\* how many server processes are launched at most
MaxLaunches == 3

(***************************************************************************)
(* Values                                                                  *)
(***************************************************************************)
None == "None"

Range(s) == {s[i] : i \in 1..Len(s)}

\* All sequences over S of length at most n.
SeqsUpTo(S, n) == UNION {[1..k -> S] : k \in 0..n}

RoleNames == {"Task.Read", "Task.Write", "Task.All", "MCPServer.Admin", "Super"}

\* The tools registered with the server, in registration order.  Three are
\* tools of WeatherMCPServer; admin_maintenance is an admin-prefixed tool
\* that carries no tag of any role.
get_weather         == <<"get", "weather">>
set_weather_alert   == <<"set", "weather", "alert">>
admin_weather_stats == <<"admin", "weather", "stats">>
admin_maintenance   == <<"admin", "maintenance">>

registered_tools ==
    <<get_weather, set_weather_alert, admin_weather_stats, admin_maintenance>>

ToolNames == Range(registered_tools)

\* tool.tags
tags(tool) ==
    CASE tool = get_weather         -> {"read", "weather", "public"}
      [] tool = set_weather_alert   -> {"write", "weather", "alert"}
      [] tool = admin_weather_stats -> {"admin", "weather", "stats"}
      [] OTHER                      -> {"weather"}

\* context.message.name when context.message is None
unknown == <<"unknown">>

\* Names a client may ask to call: every registered tool, the name used when
\* the request has no message, and an admin-prefixed name nobody registered.
CallNames == ToolNames \cup {unknown, <<"admin", "ghost">>}

(***************************************************************************)
(* Role-mapping table                                                      *)
(***************************************************************************)
default_role_mappings ==
    [r \in {"Task.Read", "Task.Write", "Task.Delete", "Task.All", "MCPServer.Admin"} |->
        CASE r = "Task.Read"       -> <<"read", "view", "get", "list">>
          [] r = "Task.Write"      -> <<"write", "create", "update", "edit", "post", "put">>
          [] r = "Task.Delete"     -> <<"delete", "remove", "destroy">>
          [] r = "Task.All"        -> <<"*">>
          [] r = "MCPServer.Admin" -> <<"admin", "config", "manage">>]

\* An empty table, as a function with the empty domain.
empty_mappings == [r \in {} |-> <<>>]

\* A table that names its wildcard role Super and has no entry for Task.All.
custom_mappings_super ==
    [r \in {"Task.Read", "Super"} |->
        IF r = "Super" THEN <<"*">> ELSE <<"read", "view">>]

\* A table that gives Task.All an ordinary tag list, and lets writers read.
custom_mappings_plain ==
    [r \in {"Task.All", "Task.Write", "Task.Read"} |->
        CASE r = "Task.All"   -> <<"read">>
          [] r = "Task.Write" -> <<"write", "read">>
          [] r = "Task.Read"  -> <<"read">>]

\* What the embedding application may pass as role_mappings.
NoMappings == [kind |-> "none", table |-> empty_mappings]

SuppliedMappings ==
    {NoMappings} \cup
    {[kind |-> "dict", table |-> t] :
        t \in {empty_mappings, custom_mappings_super, custom_mappings_plain}}

\* role_mappings or {...}: None and the empty dict are both falsy.
init_role_mappings(arg) ==
    IF arg.kind = "none" \/ DOMAIN arg.table = {}
    THEN default_role_mappings
    ELSE arg.table

(***************************************************************************)
(* Bearer credentials                                                      *)
(***************************************************************************)
\* self.claims = {}
empty_claims == [k \in {} |-> None]

\* The decoded payloads.  alice has app roles assigned and her tokens carry a
\* roles claim; bob has none assigned and his token has no roles claim.
ClaimSets ==
    {[roles |-> rs, upn |-> "alice", oid |-> "oid-alice"] :
        rs \in SeqsUpTo(RoleNames, MaxRoles)}
    \cup {[upn |-> "bob", oid |-> "oid-bob"]}

\* What get_access_token() hands to on_request: no token (or an empty one),
\* a token jwt.decode rejects, or a token that decodes to a payload.
Credentials ==
    {[kind |-> k, claims |-> empty_claims] : k \in {"none", "malformed"}}
    \cup {[kind |-> "jwt", claims |-> c] : c \in ClaimSets}

\* dict.get(key, default)
get(d, key, default) == IF key \in DOMAIN d THEN d[key] ELSE default

(***************************************************************************)
(* on_list_tools                                                           *)
(***************************************************************************)
\* Variant of has_matching_tag that asks for all() of the allowed tags.
has_matching_tag_all(tool, allowed_tags) ==
    \A i \in 1..Len(allowed_tags) : allowed_tags[i] \in tags(tool)

\* any(tag in tool_tags for tag in allowed_tags)
has_matching_tag(tool, allowed_tags) ==
    \E i \in 1..Len(allowed_tags) : allowed_tags[i] \in tags(tool)

\* Variant of add_matching_tools without the "tool not in filtered_tools" test.
RECURSIVE add_matching_tools_no_dedup(_, _, _, _)
add_matching_tools_no_dedup(result, i, allowed_tags, filtered) ==
    IF i > Len(result) THEN filtered
    ELSE add_matching_tools_no_dedup(result, i + 1, allowed_tags,
            IF \E k \in 1..Len(allowed_tags) : allowed_tags[k] \in tags(result[i])
            THEN Append(filtered, result[i])
            ELSE filtered)

\* for tool in result: append the tools that match and are not listed yet
RECURSIVE add_matching_tools(_, _, _, _)
add_matching_tools(result, i, allowed_tags, filtered) ==
    IF i > Len(result) THEN filtered
    ELSE add_matching_tools(result, i + 1, allowed_tags,
            IF has_matching_tag(result[i], allowed_tags)
               /\ result[i] \notin Range(filtered)
            THEN Append(filtered, result[i])
            ELSE filtered)

\* Variant of role_loop without the Task.All branch: every role goes through
\* the table.
RECURSIVE role_loop_table_only(_, _, _, _, _)
role_loop_table_only(rs, i, result, mappings, filtered) ==
    IF i > Len(rs) THEN filtered
    ELSE IF rs[i] \in DOMAIN mappings
         THEN role_loop_table_only(rs, i + 1, result, mappings,
                  add_matching_tools(result, 1, mappings[rs[i]], filtered))
         ELSE role_loop_table_only(rs, i + 1, result, mappings, filtered)

\* Variant of role_loop in which the tools of a role take the place of the
\* tools listed so far.
RECURSIVE role_loop_last_wins(_, _, _, _, _)
role_loop_last_wins(rs, i, result, mappings, filtered) ==
    IF i > Len(rs) THEN filtered
    ELSE IF rs[i] = "Task.All" THEN result
    ELSE IF rs[i] \in DOMAIN mappings
         THEN role_loop_last_wins(rs, i + 1, result, mappings,
                  add_matching_tools(result, 1, mappings[rs[i]], <<>>))
         ELSE role_loop_last_wins(rs, i + 1, result, mappings, filtered)

\* for role in self.roles: ... , from the i-th role on
RECURSIVE role_loop(_, _, _, _, _)
role_loop(rs, i, result, mappings, filtered) ==
    IF i > Len(rs) THEN filtered
    ELSE IF rs[i] = "Task.All" THEN result
    ELSE IF rs[i] \in DOMAIN mappings
         THEN role_loop(rs, i + 1, result, mappings,
                        add_matching_tools(result, 1, mappings[rs[i]], filtered))
         ELSE role_loop(rs, i + 1, result, mappings, filtered)

\* Variant of filtered_tools whose empty-roles branch returns the catalog.
filtered_tools_fail_open(rs, result, mappings) ==
    IF rs = <<>> THEN result ELSE role_loop(rs, 1, result, mappings, <<>>)

\* The list on_list_tools returns for self.roles = rs over the catalog result.
filtered_tools(rs, result, mappings) ==
    IF rs = <<>> THEN <<>> ELSE role_loop(rs, 1, result, mappings, <<>>)

\* tool_manager.remove_tool(name) raises when the registry does not hold name.
\* The loop over result sits inside one try block: the first removal that
\* raises ends the loop.
RECURSIVE remove_unauthorized(_, _, _, _)
remove_unauthorized(result, i, available_tool_names, registry) ==
    IF i > Len(result) THEN registry
    ELSE IF result[i] \in available_tool_names
         THEN remove_unauthorized(result, i + 1, available_tool_names, registry)
    ELSE IF result[i] \notin registry THEN registry
    ELSE remove_unauthorized(result, i + 1, available_tool_names,
                             registry \ {result[i]})

\* The registry after on_list_tools: untouched on the fail-secure return and
\* when the request has no fastmcp_context.
synced_tool_manager(rs, result, filtered, fastmcp_context, registry) ==
    IF rs = <<>> \/ ~fastmcp_context THEN registry
    ELSE remove_unauthorized(result, 1, Range(filtered), registry)

\* call_next(context) of a listing: the registry's tools in registration order
list_tools(registry) == SelectSeq(registered_tools, LAMBDA t : t \in registry)

(***************************************************************************)
(* on_call_tool                                                            *)
(***************************************************************************)
\* tool_name.startswith("admin_")
starts_with_admin(tool_name) == Len(tool_name) >= 2 /\ tool_name[1] = "admin"

\* Variant of lacks_admin_role that lets Task.All stand in for the admin role.
lacks_admin_role_unless_all(tool_name, rs) ==
    /\ starts_with_admin(tool_name)
    /\ "MCPServer.Admin" \notin Range(rs)
    /\ "Task.All" \notin Range(rs)

\* Variant of lacks_admin_role that never looks at the roles.
lacks_admin_role_any_caller(tool_name, rs) == starts_with_admin(tool_name)

\* The condition under which on_call_tool raises PermissionError.
lacks_admin_role(tool_name, rs) ==
    starts_with_admin(tool_name) /\ "MCPServer.Admin" \notin Range(rs)

\* Variant of call_outcome that also asks for a tag of the tool among the
\* tags of a role held.
call_outcome_rechecks_tags(tool_name, rs, registry) ==
    IF lacks_admin_role(tool_name, rs) THEN "PermissionError"
    ELSE IF \A i \in 1..Len(rs) :
               \/ rs[i] \notin DOMAIN default_role_mappings
               \/ ~has_matching_tag(tool_name, default_role_mappings[rs[i]])
         THEN "PermissionError"
    ELSE IF tool_name \in registry THEN "executed"
    ELSE "NotFoundError"

\* What on_call_tool does for self.roles = rs: raise PermissionError, or hand
\* the call to call_next, which runs the tool body when the registry holds a
\* tool of that name and fails with a not-found error otherwise.
call_outcome(tool_name, rs, registry) ==
    IF lacks_admin_role(tool_name, rs) THEN "PermissionError"
    ELSE IF tool_name \in registry THEN "executed"
    ELSE "NotFoundError"

(***************************************************************************)
(* get_user_permissions                                                    *)
(***************************************************************************)
\* The loop over self.roles: permissions["permissions"].extend(...) for
\* every role the table has.
RECURSIVE extend_permissions(_, _, _, _)
extend_permissions(rs, i, mappings, acc) ==
    IF i > Len(rs) THEN acc
    ELSE extend_permissions(rs, i + 1, mappings,
            IF rs[i] \in DOMAIN mappings THEN acc \o mappings[rs[i]] ELSE acc)

\* list(set(xs)): every element of xs once; the order is the set's, here
\* the order of first appearance.
RECURSIVE list_set_from(_, _, _)
list_set_from(xs, i, acc) ==
    IF i > Len(xs) THEN acc
    ELSE list_set_from(xs, i + 1,
            IF xs[i] \in Range(acc) THEN acc ELSE Append(acc, xs[i]))

list_set(xs) == list_set_from(xs, 1, <<>>)

\* get_user_permissions that starts from the table's own list of the
\* first mapped role and extends that
get_user_permissions_extends_table(uid, o, rs, mappings) ==
    LET mapped == {i \in 1..Len(rs) : rs[i] \in DOMAIN mappings}
        all    == extend_permissions(rs, 1, mappings, <<>>)
    IN  [role_mappings |->
            IF mapped = {} THEN mappings
            ELSE LET first == CHOOSE i \in mapped : \A j \in mapped : i <= j
                 IN  [mappings EXCEPT ![rs[first]] = all],
         permissions |-> [user_id |-> uid, oid |-> o, roles |-> rs,
                          permissions |-> list_set(all)]]

\* What the call returns, and the table it leaves.
get_user_permissions(uid, o, rs, mappings) ==
    [role_mappings |-> mappings,
     permissions |->
        [user_id |-> uid, oid |-> o, roles |-> rs,
         permissions |-> list_set(extend_permissions(rs, 1, mappings, <<>>))]]

(***************************************************************************)
(* Credential store: values                                                *)
(***************************************************************************)
\* Object ids of the users that log in.
UserOids == {"oid-alice", "oid-bob"}

\* Auth codes the login callback has handed out.
AuthCodes == {"X", "Y"}

\* Session ids the application has made up.
SessionIds == {"s1", "s2"}

\* f"{prefix}:token:{user_oid}", f"{prefix}:authcode:{auth_code}" and
\* f"{prefix}:session:{session_id}"
_get_token_key(user_oid) == [kind |-> "token", id |-> user_oid]

_get_auth_code_key(auth_code) == [kind |-> "authcode", id |-> auth_code]

_get_session_key(session_id) == [kind |-> "session", id |-> session_id]

Keys ==
    {_get_token_key(u) : u \in UserOids}
    \cup {_get_auth_code_key(c) : c \in AuthCodes}
    \cup {_get_session_key(i) : i \in SessionIds}

\* A key the backing store does not hold.
Absent == [present |-> FALSE]

NoStoreResponse == [op |-> "none"]

\* set_auth_code has not stored the code.
NotIssued == [set |-> FALSE]

\* The code has been stored, and delete_auth_code has been called for it
\* since.
Deleted == [set |-> TRUE, deleted |-> TRUE]

\* What a call returns when it returns None in place of a dict.
NoRecord == [none |-> TRUE]

\* The /auth/exchange calls that may overlap.
Attempts == {"e1", "e2"}

NoAnswer == [status |-> "pending"]

AttemptNotStarted ==
    [pc |-> "start", auth_code |-> None, user_oid |-> None,
     token_data |-> NoRecord, response |-> NoAnswer]

\* The token and session calls that may overlap: two that save and one
\* that loads.
Savers == {"save1", "save2"}

Racers == Savers \cup {"load"}

RacerNotStarted == [pc |-> "start"]

\* The redis_token_store argument of the middleware: a RedisTokenStore, or
\* none.
RedisTokenStore == "RedisTokenStore"

\* An empty backing store at time 0 that answers, known to the middleware,
\* and nobody calling it.
store_init ==
    /\ redis = [k \in Keys |-> Absent]
    /\ now = 0
    /\ store_response = NoStoreResponse
    /\ issued = [c \in AuthCodes |-> NotIssued]
    /\ attempts = [a \in Attempts |-> AttemptNotStarted]
    /\ redis_up = TRUE
    /\ redis_token_store = RedisTokenStore
    /\ racers = [r \in Racers |-> RacerNotStarted]

(***************************************************************************)
(* Credential store: RedisTokenStore                                       *)
(*                                                                         *)
(* Every method takes the backing store and the time of the call and       *)
(* gives back the backing store it leaves and the value it returns.  A     *)
(* time is a float of time.time(), held as a whole number of the fractions *)
(* of a second the model tells apart; a ttl is whole seconds.  The JSON    *)
(* text of a record is the record: the values stored are strings and       *)
(* numbers, which json.loads gives back as json.dumps got them.            *)
(***************************************************************************)
\* ttl of set_auth_code when the caller gives none
default_auth_code_ttl == 120

\* save_token: lifetime of a token that carries no expires_at
default_token_lifetime == 3600

\* save_token: the shortest ttl a token is stored with
min_token_ttl == 60

\* validate_token_freshness: a token this close to its end is not fresh
freshness_buffer == 300

max(a, b) == IF a >= b THEN a ELSE b

\* try/except of a method that lets the client's error through
call_raises(up, store, outcome, negative) ==
    IF up
    THEN [redis |-> outcome.redis, result |-> outcome.result, raised |-> FALSE]
    ELSE [redis |-> store, result |-> negative, raised |-> TRUE]

\* try: ... except Exception: return negative.  With the server answering
\* the body runs to its end; with the server down the first client call
\* raises, the store is as it was and the method returns its negative
\* value.
call(up, store, outcome, negative) ==
    IF up
    THEN [redis |-> outcome.redis, result |-> outcome.result, raised |-> FALSE]
    ELSE [redis |-> store, result |-> negative, raised |-> FALSE]

\* int(x) of a number of seconds: the fraction is dropped, towards zero.
int(x) == IF x >= 0 THEN x \div Second ELSE -((-x) \div Second)

\* A write that lays the fields of the value over those the key holds
setex_merges(store, key, ttl, value, t) ==
    [store EXCEPT ![key] =
        [present   |-> TRUE,
         value     |-> IF store[key].present
                       THEN [k \in DOMAIN value \cup DOMAIN store[key].value |->
                               IF k \in DOMAIN value THEN value[k]
                               ELSE store[key].value[k]]
                       ELSE value,
         expire_at |-> t + ttl * Second]]

\* The fields of a record whose value may be Python's None: the refresh
\* token of a login that was given none.
NullableFields == {"refresh_token"}

\* JSON's null, as it stands in a stored document.
null == "null"

\* json.dumps(d): the document of a dict of strings, numbers and None.
json_dumps(d) ==
    [k \in DOMAIN d |->
        IF k \in NullableFields /\ d[k] = None THEN null ELSE d[k]]

\* json.loads that leaves null as it stands in the document
json_loads_keeps_null(doc) == doc

\* json.loads(doc): null is None again.
json_loads(doc) ==
    [k \in DOMAIN doc |->
        IF k \in NullableFields /\ doc[k] = null THEN None ELSE doc[k]]

\* Redis SETEX: the key holds the value for ttl seconds from t on.
setex(store, key, ttl, value, t) ==
    [store EXCEPT ![key] =
        [present |-> TRUE, value |-> value, expire_at |-> t + ttl * Second]]

\* Redis DEL: the key is gone; the reply is the number of keys removed.
delete(store, key) ==
    [redis |-> [store EXCEPT ![key] = Absent],
     result |-> IF store[key].present THEN 1 ELSE 0]

\* Redis drops every key whose time to live has run out at time t.
expire(store, t) ==
    [k \in DOMAIN store |->
        IF store[k].present /\ store[k].expire_at <= t
        THEN Absent ELSE store[k]]

\* {**token_data, "stored_at": time.time(), "user_oid": user_oid}
token_data_with_meta(token_data, user_oid, t) ==
    [k \in DOMAIN token_data \cup {"stored_at", "user_oid"} |->
        IF k = "stored_at" THEN t
        ELSE IF k = "user_oid" THEN user_oid
        ELSE token_data[k]]

\* save_token without the floor: SETEX refuses a ttl that is not positive
save_token_no_floor(store, user_oid, token_data, t) ==
    LET key        == _get_token_key(user_oid)
        expires_at == get(token_data, "expires_at",
                          t + default_token_lifetime * Second)
        ttl        == int(expires_at - t)
    IN  IF ttl > 0
        THEN [redis  |-> setex(store, key, ttl,
                               json_dumps(
                                   token_data_with_meta(token_data, user_oid, t)),
                               t),
              result |-> TRUE]
        ELSE [redis |-> store, result |-> FALSE]

\* save_token that takes the 60 seconds for a ceiling
save_token_min(store, user_oid, token_data, t) ==
    LET key        == _get_token_key(user_oid)
        expires_at == get(token_data, "expires_at",
                          t + default_token_lifetime * Second)
        ttl        == max(1, IF int(expires_at - t) < min_token_ttl
                             THEN int(expires_at - t) ELSE min_token_ttl)
    IN  [redis  |-> setex(store, key, ttl,
                          json_dumps(
                              token_data_with_meta(token_data, user_oid, t)),
                          t),
         result |-> TRUE]

save_token(store, user_oid, token_data, t) ==
    LET key        == _get_token_key(user_oid)
        expires_at == get(token_data, "expires_at",
                          t + default_token_lifetime * Second)
        ttl        == max(min_token_ttl, int(expires_at - t))
    IN  [redis  |-> setex(store, key, ttl,
                          json_dumps(
                              token_data_with_meta(token_data, user_oid, t)),
                          t),
         result |-> TRUE]

\* load_token that reports a stale record absent and leaves it in the store
load_token_keeps_stale(store, user_oid, t) ==
    LET key == _get_token_key(user_oid) IN
    IF /\ store[key].present
       /\ get(json_loads(store[key].value), "expires_at", 0) > t
    THEN [redis |-> store, result |-> json_loads(store[key].value)]
    ELSE [redis |-> store, result |-> NoRecord]

load_token(store, user_oid, t) ==
    LET key == _get_token_key(user_oid) IN
    IF store[key].present
    THEN LET token_data == json_loads(store[key].value)
             expires_at == get(token_data, "expires_at", 0)
         IN  IF expires_at > t
             THEN [redis |-> store, result |-> token_data]
             ELSE [redis |-> delete(store, key).redis, result |-> NoRecord]
    ELSE [redis |-> store, result |-> NoRecord]

delete_token(store, user_oid) ==
    LET deleted == delete(store, _get_token_key(user_oid)) IN
    [redis |-> deleted.redis, result |-> deleted.result # 0]

\* validate_token_freshness without the five minutes of buffer
validate_token_freshness_no_buffer(o, token_store, up, store, t) ==
    IF o = None \/ token_store = None
    THEN [redis |-> store, result |-> FALSE, raised |-> FALSE]
    ELSE LET loaded == call(up, store, load_token(store, o, t), NoRecord) IN
         [redis  |-> loaded.redis,
          result |-> IF loaded.result # NoRecord
                     THEN get(loaded.result, "expires_at", 0) > t
                     ELSE FALSE,
          raised |-> FALSE]

\* validate_token_freshness that takes a caller without a loadable token
\* for fresh
validate_token_freshness_fails_open(o, token_store, up, store, t) ==
    IF o = None \/ token_store = None
    THEN [redis |-> store, result |-> FALSE, raised |-> FALSE]
    ELSE LET loaded == call(up, store, load_token(store, o, t), NoRecord) IN
         [redis  |-> loaded.redis,
          result |-> IF loaded.result # NoRecord
                     THEN get(loaded.result, "expires_at", 0)
                            > t + freshness_buffer * Second
                     ELSE TRUE,
          raised |-> FALSE]

\* AuthorizationMiddleware.validate_token_freshness for self.oid = o and
\* self.redis_token_store = token_store.  load_token catches the client's
\* errors itself, so the except branch here is never entered.
validate_token_freshness(o, token_store, up, store, t) ==
    IF o = None \/ token_store = None
    THEN [redis |-> store, result |-> FALSE, raised |-> FALSE]
    ELSE LET loaded == call(up, store, load_token(store, o, t), NoRecord) IN
         [redis  |-> loaded.redis,
          result |-> IF loaded.result # NoRecord
                     THEN get(loaded.result, "expires_at", 0)
                            > t + freshness_buffer * Second
                     ELSE FALSE,
          raised |-> FALSE]

\* set_auth_code that stores the code for the lifetime of a token,
\* whatever ttl it is given
set_auth_code_ignores_ttl(store, auth_code, user_oid, ttl, t) ==
    [redis  |-> setex(store, _get_auth_code_key(auth_code),
                      default_token_lifetime,
                      json_dumps([user_oid |-> user_oid, created_at |-> t,
                                  auth_code |-> auth_code]), t),
     result |-> TRUE]

\* set_auth_code that counts in the record how often the code was stored
set_auth_code_counts(store, auth_code, user_oid, ttl, t) ==
    LET key  == _get_auth_code_key(auth_code)
        data == [user_oid |-> user_oid, created_at |-> t,
                 auth_code |-> auth_code,
                 stored |-> IF store[key].present
                            THEN get(store[key].value, "stored", 0) + 1
                            ELSE 1]
    IN  IF ttl > 0
        THEN [redis  |-> setex(store, key, ttl, json_dumps(data), t),
              result |-> TRUE]
        ELSE [redis |-> store, result |-> FALSE]

\* SETEX refuses a ttl that is not positive: the except branch returns False.
set_auth_code(store, auth_code, user_oid, ttl, t) ==
    LET key  == _get_auth_code_key(auth_code)
        data == [user_oid |-> user_oid, created_at |-> t,
                 auth_code |-> auth_code]
    IN  IF ttl > 0
        THEN [redis  |-> setex(store, key, ttl, json_dumps(data), t),
              result |-> TRUE]
        ELSE [redis |-> store, result |-> FALSE]

\* get_auth_code that removes the code it has read
get_auth_code_consuming(store, auth_code) ==
    LET key == _get_auth_code_key(auth_code) IN
    [redis  |-> delete(store, key).redis,
     result |-> IF store[key].present
                THEN json_loads(store[key].value).user_oid ELSE None]

get_auth_code(store, auth_code) ==
    LET key == _get_auth_code_key(auth_code) IN
    [redis  |-> store,
     result |-> IF store[key].present
                THEN get(json_loads(store[key].value), "user_oid", None)
                ELSE None]

\* delete_auth_code that leaves the code where it is
delete_auth_code_keeps(store, auth_code) ==
    [redis |-> store, result |-> TRUE]

delete_auth_code(store, auth_code) ==
    LET deleted == delete(store, _get_auth_code_key(auth_code)) IN
    [redis |-> deleted.redis, result |-> deleted.result # 0]

\* ttl of save_session when the caller gives none
default_session_ttl == 3600

\* {**session_data, "created_at": time.time(), "session_id": session_id}
session_data_with_meta(session_data, session_id, t) ==
    [k \in DOMAIN session_data \cup {"created_at", "session_id"} |->
        IF k = "created_at" THEN t
        ELSE IF k = "session_id" THEN session_id
        ELSE session_data[k]]

\* SETEX refuses a ttl that is not positive: the except branch returns False.
save_session(store, session_id, session_data, ttl, t) ==
    IF ttl > 0
    THEN [redis  |-> setex(store, _get_session_key(session_id), ttl,
                           json_dumps(session_data_with_meta(
                               session_data, session_id, t)),
                           t),
          result |-> TRUE]
    ELSE [redis |-> store, result |-> FALSE]

load_session(store, session_id) ==
    LET key == _get_session_key(session_id) IN
    [redis  |-> store,
     result |-> IF store[key].present
                THEN json_loads(store[key].value) ELSE NoRecord]

delete_session(store, session_id) ==
    LET deleted == delete(store, _get_session_key(session_id)) IN
    [redis |-> deleted.redis, result |-> deleted.result # 0]

\* client.scan_iter(match=f"{prefix}:session:*") on a store nobody else
\* writes to: every session key the store holds, once, in the server's
\* order (here: a fixed one).
RECURSIVE scan_iter(_, _)
scan_iter(store, ids) ==
    IF ids = {} THEN <<>>
    ELSE LET i == CHOOSE x \in ids : TRUE IN
         (IF store[_get_session_key(i)].present
          THEN <<_get_session_key(i)>> ELSE <<>>)
         \o scan_iter(store, ids \ {i})

\* The loop of get_user_sessions over the keys scanned.
RECURSIVE append_sessions(_, _, _, _, _)
append_sessions(store, keys, i, user_oid, sessions) ==
    IF i > Len(keys) THEN sessions
    ELSE append_sessions(store, keys, i + 1, user_oid,
            IF /\ store[keys[i]].present
               /\ get(json_loads(store[keys[i]].value), "user_oid", None)
                    = user_oid
            THEN Append(sessions,
                        get(json_loads(store[keys[i]].value), "session_id",
                            None))
            ELSE sessions)

\* get_user_sessions that does not look at the subject of a session
get_user_sessions_of_all(store, user_oid) ==
    [redis  |-> store,
     result |-> [i \in 1..Len(scan_iter(store, SessionIds)) |->
                    scan_iter(store, SessionIds)[i].id]]

get_user_sessions(store, user_oid) ==
    [redis  |-> store,
     result |-> append_sessions(store, scan_iter(store, SessionIds), 1,
                                user_oid, <<>>)]

\* health_check: return self.client.ping()
health_check(store) == [redis |-> store, result |-> TRUE]

\* The two error bodies of /auth/exchange.
auth_code_required == [status |-> "error", error |-> "auth_code is required"]

invalid_or_expired ==
    [status |-> "error", error |-> "Invalid or expired auth_code"]

\* /auth/exchange without the test of what the lookup found
exchange_auth_code_unchecked(store, auth_code, t) ==
    IF auth_code = None
    THEN [redis |-> store, user_oid |-> None, response |-> auth_code_required]
    ELSE LET user_oid == get_auth_code(store, auth_code).result
             loaded   == IF user_oid = None
                         THEN [redis |-> store, result |-> NoRecord]
                         ELSE load_token(store, user_oid, t)
             deleted  == delete_auth_code(loaded.redis, auth_code)
         IN  [redis    |-> deleted.redis,
              user_oid |-> user_oid,
              response |-> [status |-> "ok", token_data |-> loaded.result]]

\* /auth/exchange as one call: lookup, load_token, delete_auth_code.
exchange_auth_code(store, auth_code, t) ==
    IF auth_code = None
    THEN [redis |-> store, user_oid |-> None, response |-> auth_code_required]
    ELSE LET user_oid == get_auth_code(store, auth_code).result IN
         IF user_oid = None
         THEN [redis |-> store, user_oid |-> None,
               response |-> invalid_or_expired]
         ELSE LET loaded  == load_token(store, user_oid, t)
                  deleted == delete_auth_code(loaded.redis, auth_code)
              IN  [redis    |-> deleted.redis,
                   user_oid |-> user_oid,
                   response |-> [status |-> "ok",
                                 token_data |-> loaded.result]]

(***************************************************************************)
(* The state machine: one request at a time                                *)
(***************************************************************************)
NoResponse ==
    [op |-> "none", roles |-> <<>>, result |-> <<>>, tools |-> <<>>,
     name |-> unknown, outcome |-> "none", registry |-> {},
     fastmcp_context |-> FALSE]

\* No request is in flight.
NoRequest == [kind |-> "idle", claims |-> empty_claims]

\* get_user_permissions has not been asked since the request arrived.
NoPermissions == [op |-> "none"]

\* The two requests that may overlap.
Slots == {"A", "B"}

NotStarted ==
    [pc |-> "start", credential |-> NoRequest, hook |-> "none",
     name |-> unknown, result |-> <<>>]

\* The names in MCPServerManager.server_configs.
server_configs == {"weather"}

\* The process ids the operating system hands out, in this order.
Pids == 1..MaxLaunches

\* self.processes = {}
no_processes == [n \in {} |-> 1]

\* No process has been launched under the id.
NotLaunched == [status |-> "none"]

\* The concurrent callers of start_server.
Callers == {"c1", "c2"}

CallerIdle == [pc |-> "idle"]

NoManagerResponse == [op |-> "none"]

\* The manager after __init__: nothing launched, nothing tracked.
server_init ==
    /\ processes = no_processes
    /\ os_processes = [p \in Pids |-> NotLaunched]
    /\ start_calls = [c \in Callers |-> CallerIdle]
    /\ manager_response = NoManagerResponse

\* No overlapping request has started.
conc_init ==
    /\ inflight = [s \in Slots |-> NotStarted]
    /\ responses = [s \in Slots |-> NoResponse]

\* The middleware after __init__ and the registry after the server has
\* registered its tools.
shared_init ==
    /\ supplied_mappings \in SuppliedMappings
    /\ role_mappings = init_role_mappings(supplied_mappings)
    /\ claims = empty_claims
    /\ roles = <<>>
    /\ user_id = None
    /\ oid = None
    /\ tool_manager = ToolNames

\* __init__: the table is chosen, the caller context is empty, and the server
\* has registered its tools.
Init ==
    /\ shared_init
    /\ pc = "idle"
    /\ response = NoResponse
    /\ request = NoRequest
    /\ permissions = NoPermissions
    /\ conc_init
    /\ server_init
    /\ store_init

\* Variant of on_request whose except branch leaves the context as it was.
on_request_no_reset(credential) ==
    IF credential.kind = "jwt"
    THEN [claims  |-> credential.claims,
          roles   |-> get(credential.claims, "roles", <<>>),
          user_id |-> get(credential.claims, "upn", None),
          oid     |-> get(credential.claims, "oid", None)]
    ELSE [claims |-> claims, roles |-> roles, user_id |-> user_id, oid |-> oid]

\* on_request, up to its call_next: the caller context after the credential
\* has been looked at.
on_request(credential) ==
    CASE credential.kind = "jwt" ->
            [claims  |-> credential.claims,
             roles   |-> get(credential.claims, "roles", <<>>),
             user_id |-> get(credential.claims, "upn", None),
             oid     |-> get(credential.claims, "oid", None)]
      [] credential.kind = "malformed" ->
            [claims |-> empty_claims, roles |-> <<>>, user_id |-> None, oid |-> None]
      [] OTHER ->
            [claims |-> claims, roles |-> roles, user_id |-> user_id, oid |-> oid]

\* A request arrives: on_request sets the caller context and passes the
\* request on to the hook of its kind.
OnRequest(credential) ==
    /\ pc = "idle"
    /\ LET ctx == on_request(credential) IN
        /\ claims' = ctx.claims
        /\ roles' = ctx.roles
        /\ user_id' = ctx.user_id
        /\ oid' = ctx.oid
    /\ pc' = "call_next"
    /\ request' = credential
    /\ permissions' = NoPermissions
    /\ UNCHANGED <<supplied_mappings, role_mappings, tool_manager, response>>
    /\ UNCHANGED <<conc_vars, store_vars, server_vars>>

\* on_list_tools: fetch the catalog, filter it by self.roles, remove the
\* filtered-out tools from the registry, return the filtered list.
OnListTools(fastmcp_context) ==
    /\ pc = "call_next"
    /\ LET result   == list_tools(tool_manager)
           filtered == filtered_tools(roles, result, role_mappings)
       IN
        /\ tool_manager' =
             synced_tool_manager(roles, result, filtered, fastmcp_context, tool_manager)
        /\ response' =
             [op |-> "on_list_tools", roles |-> roles, result |-> result,
              tools |-> filtered, name |-> unknown, outcome |-> "returned",
              registry |-> tool_manager, fastmcp_context |-> fastmcp_context]
    /\ pc' = "respond"
    /\ UNCHANGED <<supplied_mappings, role_mappings, claims, roles, user_id, oid>>
    /\ UNCHANGED <<request, permissions, conc_vars, store_vars, server_vars>>

\* on_call_tool for a request to call tool_name: the admin-prefix check, then
\* the tool call itself.
OnCallTool(tool_name) ==
    /\ pc = "call_next"
    /\ response' =
         [op |-> "on_call_tool", roles |-> roles, result |-> <<>>,
          tools |-> <<>>, name |-> tool_name,
          outcome |-> call_outcome(tool_name, roles, tool_manager),
          registry |-> tool_manager, fastmcp_context |-> FALSE]
    /\ pc' = "respond"
    /\ UNCHANGED <<supplied_mappings, role_mappings, claims, roles, user_id, oid,
                   tool_manager>>
    /\ UNCHANGED <<request, permissions, conc_vars, store_vars, server_vars>>

\* The hook's result or error goes back to the client and the request ends.
\* Nothing of the middleware changes: the caller context stays as it is.
Respond ==
    /\ pc = "respond"
    /\ pc' = "idle"
    /\ response' = NoResponse
    /\ request' = NoRequest
    /\ permissions' = NoPermissions
    /\ UNCHANGED <<supplied_mappings, role_mappings, claims, roles, user_id, oid,
                   tool_manager>>
    /\ UNCHANGED <<conc_vars, store_vars, server_vars>>

\* Somebody holding the middleware asks for the caller's permissions.
GetUserPermissions ==
    /\ LET r == get_user_permissions(user_id, oid, roles, role_mappings) IN
        /\ permissions' = r.permissions
        /\ role_mappings' = r.role_mappings
    /\ UNCHANGED <<supplied_mappings, claims, roles, user_id, oid, tool_manager>>
    /\ UNCHANGED <<pc, response, request, conc_vars, store_vars, server_vars>>

Next ==
    \/ \E credential \in Credentials : OnRequest(credential)
    \/ \E fastmcp_context \in BOOLEAN : OnListTools(fastmcp_context)
    \/ \E tool_name \in CallNames : OnCallTool(tool_name)
    \/ Respond
    \/ GetUserPermissions

Spec == Init /\ [][Next]_vars

(***************************************************************************)
(* The state machine: two requests that overlap                            *)
(*                                                                         *)
(* Both requests go through the one middleware instance.  A hook gives up  *)
(* control at an await that reaches the server: on_list_tools at its first *)
(* line, before it reads self.roles; on_call_tool after its admin check.   *)
(* on_request and the first lines of the hook it calls run without a       *)
(* break.  The server always hands these requests a fastmcp_context.       *)
(***************************************************************************)
\* The credentials of the overlapping requests: no token, an undecodable
\* one, bob's, and alice's with no role or one of three.
ConcRoleNames == {"Task.Write", "Task.All", "MCPServer.Admin"}

ConcCredentials ==
    {c \in Credentials :
        /\ Len(get(c.claims, "roles", <<>>)) <= 1
        /\ Range(get(c.claims, "roles", <<>>)) \subseteq ConcRoleNames}

\* The tools the overlapping requests ask to call.
ConcCallNames == {get_weather, admin_weather_stats}

\* The seq_vars and store_vars stay as they start.
conc_frame ==
    UNCHANGED <<supplied_mappings, role_mappings, seq_vars, store_vars,
                server_vars>>

\* A listing request arrives: on_request sets the caller context, and
\* on_list_tools waits for call_next.
StartList(s, credential) ==
    /\ inflight[s].pc = "start"
    /\ LET ctx == on_request(credential) IN
        /\ claims' = ctx.claims
        /\ roles' = ctx.roles
        /\ user_id' = ctx.user_id
        /\ oid' = ctx.oid
    /\ inflight' = [inflight EXCEPT ![s] =
                      [pc |-> "await_list", credential |-> credential,
                       hook |-> "on_list_tools", name |-> unknown,
                       result |-> <<>>]]
    /\ UNCHANGED <<tool_manager, responses>>
    /\ conc_frame

\* The server answers call_next with the tools the registry holds now.
ListFetched(s) ==
    /\ inflight[s].pc = "await_list"
    /\ inflight' = [inflight EXCEPT ![s].pc = "resume_list",
                                    ![s].result = list_tools(tool_manager)]
    /\ UNCHANGED <<claims, roles, user_id, oid, tool_manager, responses>>
    /\ conc_frame

\* on_list_tools goes on after the await: filter by self.roles as it is now,
\* sync the registry as it is now, return.
ResumeList(s) ==
    /\ inflight[s].pc = "resume_list"
    /\ LET result   == inflight[s].result
           filtered == filtered_tools(roles, result, role_mappings)
       IN
        /\ tool_manager' =
             synced_tool_manager(roles, result, filtered, TRUE, tool_manager)
        /\ responses' = [responses EXCEPT ![s] =
             [op |-> "on_list_tools", roles |-> roles, result |-> result,
              tools |-> filtered, name |-> unknown, outcome |-> "returned",
              registry |-> tool_manager, fastmcp_context |-> TRUE]]
    /\ inflight' = [inflight EXCEPT ![s].pc = "done"]
    /\ UNCHANGED <<claims, roles, user_id, oid>>
    /\ conc_frame

\* A call request arrives: on_request sets the caller context and
\* on_call_tool makes its admin check; a call that passes waits for the
\* server.
StartCall(s, credential, tool_name) ==
    /\ inflight[s].pc = "start"
    /\ LET ctx    == on_request(credential)
           denied == lacks_admin_role(tool_name, ctx.roles)
       IN
        /\ claims' = ctx.claims
        /\ roles' = ctx.roles
        /\ user_id' = ctx.user_id
        /\ oid' = ctx.oid
        /\ inflight' = [inflight EXCEPT ![s] =
                          [pc |-> IF denied THEN "done" ELSE "await_call",
                           credential |-> credential, hook |-> "on_call_tool",
                           name |-> tool_name, result |-> <<>>]]
        /\ responses' = [responses EXCEPT ![s] =
             [op |-> "on_call_tool", roles |-> ctx.roles, result |-> <<>>,
              tools |-> <<>>, name |-> tool_name,
              outcome |-> IF denied THEN "PermissionError" ELSE "none",
              registry |-> tool_manager, fastmcp_context |-> TRUE]]
    /\ UNCHANGED tool_manager
    /\ conc_frame

\* The server runs the tool, if the registry holds it now.
CallNext(s) ==
    /\ inflight[s].pc = "await_call"
    /\ responses' = [responses EXCEPT
          ![s].outcome = call_outcome(inflight[s].name, responses[s].roles,
                                      tool_manager),
          ![s].registry = tool_manager]
    /\ inflight' = [inflight EXCEPT ![s].pc = "done"]
    /\ UNCHANGED <<claims, roles, user_id, oid, tool_manager>>
    /\ conc_frame

\* The response has gone back to the client, which sends its next request
\* over the same connection.
NextRequest(s) ==
    /\ inflight[s].pc = "done"
    /\ inflight' = [inflight EXCEPT ![s] = NotStarted]
    /\ responses' = [responses EXCEPT ![s] = NoResponse]
    /\ UNCHANGED <<claims, roles, user_id, oid, tool_manager>>
    /\ conc_frame

\* The server runs with the default role mappings.
ConcInit ==
    /\ shared_init
    /\ supplied_mappings = NoMappings
    /\ pc = "idle"
    /\ response = NoResponse
    /\ request = NoRequest
    /\ permissions = NoPermissions
    /\ conc_init
    /\ server_init
    /\ store_init

ConcNext ==
    \/ \E s \in Slots, credential \in ConcCredentials : StartList(s, credential)
    \/ \E s \in Slots : ListFetched(s)
    \/ \E s \in Slots : ResumeList(s)
    \/ \E s \in Slots, credential \in ConcCredentials, tool_name \in ConcCallNames :
          StartCall(s, credential, tool_name)
    \/ \E s \in Slots : CallNext(s)
    \/ \E s \in Slots : NextRequest(s)

SpecConc == ConcInit /\ [][ConcNext]_vars

(***************************************************************************)
(* The state machine: the credential store, one call at a time             *)
(***************************************************************************)
\* The ttl values callers pass to set_auth_code.
Ttls == {0, 60, default_auth_code_ttl}

\* expires_in of the tokens the identity provider hands out.
ExpiresIn == {default_token_lifetime}

\* The token_data the login callback saves at time t.
TokenData(t) ==
    {[access_token |-> "access-token", expires_at |-> t + e * Second] :
        e \in ExpiresIn}

\* Seconds that pass between two calls.
TickSteps == {60}

\* The middleware and the exchange attempts stay as they start.
store_frame ==
    UNCHANGED <<shared_vars, seq_vars, conc_vars, attempts, redis_up,
                redis_token_store, racers, server_vars>>

SetAuthCode(auth_code, user_oid, ttl) ==
    /\ LET r == call(redis_up, redis,
                     set_auth_code(redis, auth_code, user_oid, ttl, now),
                     FALSE)
       IN
        /\ redis' = r.redis
        /\ store_response' = [op |-> "set_auth_code", key |-> auth_code,
                              ok |-> r.result, raised |-> r.raised]
        /\ issued' = IF r.result
                     THEN [issued EXCEPT ![auth_code] =
                             [set |-> TRUE, user_oid |-> user_oid,
                              set_at |-> now, ttl |-> ttl, deleted |-> FALSE]]
                     ELSE issued
    /\ UNCHANGED now
    /\ store_frame

GetAuthCode(auth_code) ==
    /\ LET r == call(redis_up, redis, get_auth_code(redis, auth_code), None)
       IN
        /\ redis' = r.redis
        /\ store_response' = [op |-> "get_auth_code", key |-> auth_code,
                              user_oid |-> r.result, raised |-> r.raised]
    /\ UNCHANGED <<now, issued>>
    /\ store_frame

DeleteAuthCode(auth_code) ==
    /\ LET r == call(redis_up, redis, delete_auth_code(redis, auth_code),
                     FALSE)
       IN
        /\ redis' = r.redis
        /\ store_response' = [op |-> "delete_auth_code", key |-> auth_code,
                              ok |-> r.result, raised |-> r.raised]
    /\ issued' = IF issued[auth_code].set /\ redis_up
                 THEN [issued EXCEPT ![auth_code] = Deleted]
                 ELSE issued
    /\ UNCHANGED now
    /\ store_frame

SaveToken(user_oid, token_data) ==
    /\ LET r == call(redis_up, redis,
                     save_token(redis, user_oid, token_data, now), FALSE)
       IN
        /\ redis' = r.redis
        /\ store_response' = [op |-> "save_token", key |-> user_oid,
                              given |-> token_data, ok |-> r.result,
                              raised |-> r.raised]
    /\ UNCHANGED <<now, issued>>
    /\ store_frame

LoadToken(user_oid) ==
    /\ LET r == call(redis_up, redis, load_token(redis, user_oid, now),
                     NoRecord)
       IN
        /\ redis' = r.redis
        /\ store_response' = [op |-> "load_token", key |-> user_oid,
                              held |-> redis[_get_token_key(user_oid)],
                              token_data |-> r.result, raised |-> r.raised]
    /\ UNCHANGED <<now, issued>>
    /\ store_frame

DeleteToken(user_oid) ==
    /\ LET r == call(redis_up, redis, delete_token(redis, user_oid), FALSE)
       IN
        /\ redis' = r.redis
        /\ store_response' = [op |-> "delete_token", key |-> user_oid,
                              ok |-> r.result, raised |-> r.raised]
    /\ UNCHANGED <<now, issued>>
    /\ store_frame

\* POST /auth/exchange, with nothing else running; a payload without
\* auth_code is the code None.
ExchangeAuthCode(auth_code) ==
    /\ LET r == exchange_auth_code(redis, auth_code, now) IN
        /\ redis' = r.redis
        /\ store_response' = [op |-> "exchange_auth_code", key |-> auth_code,
                              user_oid |-> r.user_oid,
                              response |-> r.response]
        /\ issued' = IF r.user_oid # None
                     THEN [issued EXCEPT ![auth_code] = Deleted]
                     ELSE issued
    /\ UNCHANGED now
    /\ store_frame

\* Time passes: the backing store drops the keys that have run out, and the
\* answer of the last call belongs to the past.
Tick(d) ==
    /\ now + d * Second <= MaxTicks * d * Second
    /\ now' = now + d * Second
    /\ redis' = expire(redis, now + d * Second)
    /\ store_response' = NoStoreResponse
    /\ UNCHANGED issued
    /\ store_frame

\* An empty backing store, a server with the default role mappings.
StoreInit ==
    /\ shared_init
    /\ supplied_mappings = NoMappings
    /\ pc = "idle"
    /\ response = NoResponse
    /\ request = NoRequest
    /\ permissions = NoPermissions
    /\ conc_init
    /\ server_init
    /\ store_init

StoreNext ==
    \/ \E auth_code \in AuthCodes, user_oid \in UserOids, ttl \in Ttls :
          SetAuthCode(auth_code, user_oid, ttl)
    \/ \E auth_code \in AuthCodes : GetAuthCode(auth_code)
    \/ \E auth_code \in AuthCodes : DeleteAuthCode(auth_code)
    \/ \E user_oid \in UserOids, token_data \in TokenData(now) :
          SaveToken(user_oid, token_data)
    \/ \E user_oid \in UserOids : LoadToken(user_oid)
    \/ \E user_oid \in UserOids : DeleteToken(user_oid)
    \/ \E auth_code \in AuthCodes \cup {None} : ExchangeAuthCode(auth_code)
    \/ \E d \in TickSteps : Tick(d)

SpecStore == StoreInit /\ [][StoreNext]_vars

(***************************************************************************)
(* The state machine: tokens, their freshness, and a server that may fail  *)
(***************************************************************************)
\* How far from the time of the call the expires_at of a saved token lies:
\* past, now, under the floor, a second and a fraction over it, and at and
\* just over the freshness buffer.
TokenLifetimes ==
    {-10 * Second, 0, 30 * Second, 90 * Second + 1,
     freshness_buffer * Second, freshness_buffer * Second + 1}

\* The token_data given to save_token at time t; one carries no expires_at.
TokenInputs(t) ==
    {[access_token |-> "access-token", expires_at |-> t + d] :
        d \in TokenLifetimes}
    \cup {[access_token |-> "access-token"]}

\* The callers whose token freshness is asked for.
TokenCredentials ==
    {c \in Credentials : get(c.claims, "roles", <<>>) = <<>>}

\* The redis_token_store argument of __init__.
TokenStoreArguments == {None, RedisTokenStore}

\* on_request: a request of the caller arrives and sets the caller context.
TokenRequest(credential) ==
    /\ LET ctx == on_request(credential) IN
        /\ claims' = ctx.claims
        /\ roles' = ctx.roles
        /\ user_id' = ctx.user_id
        /\ oid' = ctx.oid
    /\ store_response' = NoStoreResponse
    /\ UNCHANGED <<supplied_mappings, role_mappings, tool_manager>>
    /\ UNCHANGED <<seq_vars, conc_vars, redis, now, issued, attempts, redis_up,
                   redis_token_store, racers, server_vars>>

ValidateTokenFreshness ==
    /\ LET r == validate_token_freshness(oid, redis_token_store, redis_up,
                                         redis, now)
       IN
        /\ redis' = r.redis
        /\ store_response' =
             [op |-> "validate_token_freshness", key |-> oid,
              held |-> IF oid = None THEN Absent
                       ELSE redis[_get_token_key(oid)],
              fresh |-> r.result, raised |-> r.raised]
    /\ UNCHANGED <<now, issued>>
    /\ store_frame

\* The Redis server stops answering: every client call raises.
Fail ==
    /\ redis_up
    /\ redis_up' = FALSE
    /\ store_response' = NoStoreResponse
    /\ UNCHANGED <<shared_vars, seq_vars, conc_vars, redis, now, issued,
                   attempts, redis_token_store, racers, server_vars>>

\* The Redis server answers again, with the keys it held.
Recover ==
    /\ ~redis_up
    /\ redis_up' = TRUE
    /\ store_response' = NoStoreResponse
    /\ UNCHANGED <<shared_vars, seq_vars, conc_vars, redis, now, issued,
                   attempts, redis_token_store, racers, server_vars>>

\* The middleware is built with a token store or without one.
TokenInit ==
    /\ shared_init
    /\ supplied_mappings = NoMappings
    /\ pc = "idle"
    /\ response = NoResponse
    /\ request = NoRequest
    /\ permissions = NoPermissions
    /\ conc_init
    /\ server_init
    /\ redis = [k \in Keys |-> Absent]
    /\ now = 0
    /\ store_response = NoStoreResponse
    /\ issued = [c \in AuthCodes |-> NotIssued]
    /\ attempts = [a \in Attempts |-> AttemptNotStarted]
    /\ redis_up = TRUE
    /\ redis_token_store \in TokenStoreArguments
    /\ racers = [r \in Racers |-> RacerNotStarted]

TokenNext ==
    \/ \E credential \in TokenCredentials : TokenRequest(credential)
    \/ \E user_oid \in UserOids, token_data \in TokenInputs(now) :
          SaveToken(user_oid, token_data)
    \/ \E user_oid \in UserOids : LoadToken(user_oid)
    \/ \E user_oid \in UserOids : DeleteToken(user_oid)
    \/ ValidateTokenFreshness
    \/ \E d \in TickSteps : Tick(d)
    \/ Fail
    \/ Recover

SpecToken == TokenInit /\ [][TokenNext]_vars

(***************************************************************************)
(* The state machine: tokens saved and loaded again                        *)
(***************************************************************************)
\* The token_data saved: a login with a refresh token and one without
\* (the callback stores None then), a record that brings a user_oid and a
\* stored_at of its own and expires within the second, and a stale one.
RoundTripData(t) ==
    {[access_token |-> "access-token", refresh_token |-> "refresh-token",
      expires_at |-> t + default_token_lifetime * Second],
     [access_token |-> "access-token", refresh_token |-> None,
      expires_at |-> t + 30 * Second],
     [access_token |-> "access-token", expires_at |-> t + 1,
      user_oid |-> "oid-mallory", stored_at |-> -1],
     [access_token |-> "access-token", refresh_token |-> None,
      expires_at |-> t - 10 * Second]}

RoundTripNext ==
    \/ \E user_oid \in UserOids, token_data \in RoundTripData(now) :
          SaveToken(user_oid, token_data)
    \/ \E user_oid \in UserOids : LoadToken(user_oid)
    \/ \E d \in TickSteps : Tick(d)

SpecRoundTrip == StoreInit /\ [][RoundTripNext]_vars

(***************************************************************************)
(* The state machine: sessions                                             *)
(***************************************************************************)
\* The session_data callers save: a session of either user, and one that
\* names no user.
SessionData ==
    {[user_oid |-> u, client |-> "web"] : u \in UserOids}
    \cup {[client |-> "web"]}

\* The ttl values callers pass to save_session.
SessionTtls == {0, default_session_ttl}

\* Seconds that pass between two session calls.
SessionTickSteps == {1800}

SaveSession(session_id, session_data, ttl) ==
    /\ LET r == call(redis_up, redis,
                     save_session(redis, session_id, session_data, ttl, now),
                     FALSE)
       IN
        /\ redis' = r.redis
        /\ store_response' = [op |-> "save_session", key |-> session_id,
                              ok |-> r.result, raised |-> r.raised]
    /\ UNCHANGED <<now, issued>>
    /\ store_frame

LoadSession(session_id) ==
    /\ LET r == call(redis_up, redis, load_session(redis, session_id),
                     NoRecord)
       IN
        /\ redis' = r.redis
        /\ store_response' = [op |-> "load_session", key |-> session_id,
                              session_data |-> r.result, raised |-> r.raised]
    /\ UNCHANGED <<now, issued>>
    /\ store_frame

DeleteSession(session_id) ==
    /\ LET r == call(redis_up, redis, delete_session(redis, session_id),
                     FALSE)
       IN
        /\ redis' = r.redis
        /\ store_response' = [op |-> "delete_session", key |-> session_id,
                              ok |-> r.result, raised |-> r.raised]
    /\ UNCHANGED <<now, issued>>
    /\ store_frame

GetUserSessions(user_oid) ==
    /\ LET r == call(redis_up, redis, get_user_sessions(redis, user_oid),
                     <<>>)
       IN
        /\ redis' = r.redis
        /\ store_response' = [op |-> "get_user_sessions", key |-> user_oid,
                              sessions |-> r.result, raised |-> r.raised]
    /\ UNCHANGED <<now, issued>>
    /\ store_frame

HealthCheck ==
    /\ LET r == call(redis_up, redis, health_check(redis), FALSE) IN
        /\ redis' = r.redis
        /\ store_response' = [op |-> "health_check", key |-> None,
                              ok |-> r.result, raised |-> r.raised]
    /\ UNCHANGED <<now, issued>>
    /\ store_frame

SessionNext ==
    \/ \E session_id \in SessionIds, session_data \in SessionData,
          ttl \in SessionTtls :
          SaveSession(session_id, session_data, ttl)
    \/ \E session_id \in SessionIds : LoadSession(session_id)
    \/ \E session_id \in SessionIds : DeleteSession(session_id)
    \/ \E user_oid \in UserOids : GetUserSessions(user_oid)
    \/ \E d \in SessionTickSteps : Tick(d)

SpecSession == StoreInit /\ [][SessionNext]_vars

(***************************************************************************)
(* The state machine: every store method, with a server that may fail      *)
(***************************************************************************)
OutageNext ==
    \/ \E user_oid \in UserOids, token_data \in TokenData(now) :
          SaveToken(user_oid, token_data)
    \/ \E user_oid \in UserOids : LoadToken(user_oid)
    \/ \E user_oid \in UserOids : DeleteToken(user_oid)
    \/ \E auth_code \in {"X"}, user_oid \in UserOids :
          SetAuthCode(auth_code, user_oid, default_auth_code_ttl)
    \/ \E auth_code \in {"X"} : GetAuthCode(auth_code)
    \/ \E auth_code \in {"X"} : DeleteAuthCode(auth_code)
    \/ \E session_id \in {"s1"}, session_data \in SessionData :
          SaveSession(session_id, session_data, default_session_ttl)
    \/ \E session_id \in {"s1"} : LoadSession(session_id)
    \/ \E session_id \in {"s1"} : DeleteSession(session_id)
    \/ \E user_oid \in UserOids : GetUserSessions(user_oid)
    \/ HealthCheck
    \/ Fail
    \/ Recover

SpecOutage == StoreInit /\ [][OutageNext]_vars

(***************************************************************************)
(* The state machine: two saves and a load of one key that overlap         *)
(*                                                                         *)
(* The methods are not atomic: each is a sequence of Python statements     *)
(* and of Redis commands, and the server runs one command at a time.  A    *)
(* save prepares its record and sends one SETEX; a load sends GET, and     *)
(* load_token sends DEL afterwards when the record it got is stale.        *)
(***************************************************************************)
\* The keys raced for: the token of a user, a session.
RaceKeys == {_get_token_key("oid-alice"), _get_session_key("s1")}

\* The token_data of the racing save_token calls: stale, live, and one
\* with a refresh token and no expires_at.
RaceTokenData(t) ==
    {[access_token |-> "access-token", expires_at |-> t + d] :
        d \in {-10 * Second, default_token_lifetime * Second}}
    \cup {[access_token |-> "access-token", refresh_token |-> "refresh-token"]}

\* What a racing save is given for the key.
RaceData(key, t) ==
    IF key.kind = "token" THEN RaceTokenData(t) ELSE SessionData

race_frame ==
    UNCHANGED <<shared_vars, seq_vars, conc_vars, now, store_response,
                issued, attempts, redis_up, redis_token_store, server_vars>>

\* Every call of the race is for the same key.
same_key(key) ==
    \A q \in Racers : racers[q].pc # "start" => racers[q].key = key

\* save_token / save_session up to the SETEX: ttl and record are computed.
RacePrepare(r, key, data) ==
    /\ racers[r].pc = "start"
    /\ same_key(key)
    /\ racers' = [racers EXCEPT ![r] =
          [pc    |-> "prepared",
           key   |-> key,
           ttl   |-> IF key.kind = "token"
                     THEN max(min_token_ttl,
                              int(get(data, "expires_at",
                                      now + default_token_lifetime * Second)
                                  - now))
                     ELSE default_session_ttl,
           value |-> IF key.kind = "token"
                     THEN token_data_with_meta(data, key.id, now)
                     ELSE session_data_with_meta(data, key.id, now)]]
    /\ UNCHANGED redis
    /\ race_frame

\* self.client.setex(key, ttl, json.dumps(...)); return True
RaceSetex(r) ==
    /\ racers[r].pc = "prepared"
    /\ redis' = setex(redis, racers[r].key, racers[r].ttl,
                      json_dumps(racers[r].value), now)
    /\ racers' = [racers EXCEPT ![r].pc = "done"]
    /\ race_frame

\* data = self.client.get(key), and what load_token / load_session make of
\* it: the record is returned, or None, or (load_token) the record is stale
\* and is to be deleted.
RaceGet(key) ==
    /\ racers["load"].pc = "start"
    /\ same_key(key)
    /\ LET data  == redis[key]
           stale == /\ key.kind = "token"
                    /\ data.present
                    /\ ~(get(json_loads(data.value), "expires_at", 0) > now)
       IN  racers' = [racers EXCEPT !["load"] =
              [pc      |-> IF stale THEN "stale" ELSE "done",
               key     |-> key,
               loaded  |-> IF data.present /\ ~stale
                           THEN json_loads(data.value) ELSE NoRecord,
               deleted |-> FALSE,
               removed |-> Absent]]
    /\ UNCHANGED redis
    /\ race_frame

\* self.client.delete(key); return None
RaceDelete ==
    /\ racers["load"].pc = "stale"
    /\ redis' = delete(redis, racers["load"].key).redis
    /\ racers' = [racers EXCEPT !["load"].pc = "done",
                                !["load"].deleted = TRUE,
                                !["load"].removed = redis[racers["load"].key]]
    /\ race_frame

RaceNext ==
    \/ \E r \in Savers, key \in RaceKeys :
          \E data \in RaceData(key, now) : RacePrepare(r, key, data)
    \/ \E r \in Savers : RaceSetex(r)
    \/ \E key \in RaceKeys : RaceGet(key)
    \/ RaceDelete

SpecRace == StoreInit /\ [][RaceNext]_vars

(***************************************************************************)
(* The state machine: /auth/exchange calls that overlap                    *)
(*                                                                         *)
(* exchange_auth_code is a plain def route: the framework runs each call   *)
(* in a worker thread, so two calls can be between any two of their store  *)
(* calls at the same time.  Each store call is one Redis command.          *)
(***************************************************************************)
\* The middleware, the clock and the sequential caller stay as they start.
exchange_frame ==
    UNCHANGED <<shared_vars, seq_vars, conc_vars, now, store_response,
                redis_up, redis_token_store, racers, server_vars>>

\* GET /auth/callback after a successful login: the token is saved under
\* the user's oid and a fresh auth code is stored for two minutes.
Callback(user_oid, auth_code, token_data) ==
    /\ ~issued[auth_code].set
    /\ LET saved == save_token(redis, user_oid, token_data, now)
           coded == set_auth_code(saved.redis, auth_code, user_oid,
                                  default_auth_code_ttl, now)
       IN  redis' = coded.redis
    /\ issued' = [issued EXCEPT ![auth_code] =
                    [set |-> TRUE, user_oid |-> user_oid, set_at |-> now,
                     ttl |-> default_auth_code_ttl, deleted |-> FALSE]]
    /\ UNCHANGED attempts
    /\ exchange_frame

\* The call reads payload["auth_code"] and looks the code up.
ExchangeGet(a, auth_code) ==
    /\ attempts[a].pc = "start"
    /\ LET user_oid == IF auth_code = None THEN None
                       ELSE get_auth_code(redis, auth_code).result
       IN  attempts' = [attempts EXCEPT ![a] =
             [pc         |-> IF user_oid = None THEN "done" ELSE "load_token",
              auth_code  |-> auth_code,
              user_oid   |-> user_oid,
              token_data |-> NoRecord,
              response   |-> IF auth_code = None THEN auth_code_required
                             ELSE IF user_oid = None THEN invalid_or_expired
                             ELSE NoAnswer]]
    /\ redis' = IF auth_code = None THEN redis
                ELSE get_auth_code(redis, auth_code).redis
    /\ UNCHANGED issued
    /\ exchange_frame

ExchangeLoad(a) ==
    /\ attempts[a].pc = "load_token"
    /\ LET loaded == load_token(redis, attempts[a].user_oid, now) IN
        /\ redis' = loaded.redis
        /\ attempts' = [attempts EXCEPT ![a].pc = "delete_auth_code",
                                        ![a].token_data = loaded.result]
    /\ UNCHANGED issued
    /\ exchange_frame

\* The code is deleted and the token goes back to the client.
ExchangeDelete(a) ==
    /\ attempts[a].pc = "delete_auth_code"
    /\ redis' = delete_auth_code(redis, attempts[a].auth_code).redis
    /\ attempts' = [attempts EXCEPT
          ![a].pc = "done",
          ![a].response = [status |-> "ok",
                           token_data |-> attempts[a].token_data]]
    /\ issued' = [issued EXCEPT ![attempts[a].auth_code] = Deleted]
    /\ exchange_frame

ExchangeInit == StoreInit

ExchangeNext ==
    \/ \E user_oid \in UserOids, auth_code \in AuthCodes,
          token_data \in TokenData(now) :
          Callback(user_oid, auth_code, token_data)
    \/ \E a \in Attempts, auth_code \in AuthCodes \cup {None} :
          ExchangeGet(a, auth_code)
    \/ \E a \in Attempts : ExchangeLoad(a)
    \/ \E a \in Attempts : ExchangeDelete(a)

SpecExchange == ExchangeInit /\ [][ExchangeNext]_vars

(***************************************************************************)
(* WeatherMCPServer                                                        *)
(***************************************************************************)
\* self.app = FastAPI(...): the object when __init__ has run its first line
new_weather_server ==
    [attributes |-> {"app"}, auth |-> None, middleware |-> <<>>,
     mounted |-> FALSE, auth_routes |-> FALSE]

\* setup_mcp_server: FastMCP(auth=...), add_middleware, the tools, the mount
setup_mcp_server(self) ==
    [self EXCEPT
        !.attributes = @ \cup {"mcp_server"},
        !.auth = IF "auth_context" \in self.attributes
                 THEN "bearer_auth" ELSE None,
        !.middleware = IF {"auth_context", "redis_store"} \subseteq self.attributes
                       THEN <<"AuthorizationMiddleware">> ELSE <<>>,
        !.mounted = TRUE]

\* setup_azure_auth with the Azure AD settings in the environment and a
\* Redis server that answers the ping of RedisTokenStore()
setup_azure_auth(self) ==
    [self EXCEPT
        !.attributes = @ \cup {"redis_store", "auth_context"},
        !.auth_routes = TRUE]

\* WeatherMCPServer(): setup_mcp_server, then setup_azure_auth, which raises
\* ValueError without the Azure AD settings and ConnectionError without a
\* Redis server.
WeatherMCPServer(configured, up) ==
    LET self == setup_mcp_server(new_weather_server) IN
    IF configured /\ up
    THEN [raised |-> FALSE, self |-> setup_azure_auth(self)]
    ELSE [raised |-> TRUE, self |-> self]

(***************************************************************************)
(* The state machine: MCPServerManager and its server processes            *)
(*                                                                         *)
(* start_server is a coroutine: it launches the process, records it and    *)
(* sleeps two seconds, and other calls of the manager run meanwhile.  The  *)
(* process imports app.mcp.weather_server, which constructs the            *)
(* WeatherMCPServer; a process may exit at any time.                       *)
(***************************************************************************)
\* The names the callers ask for: the configured server, and one that is
\* not configured.
ServerNames == server_configs \cup {"finance"}

\* The ids of the processes launched so far.
launched == {p \in Pids : os_processes[p].status # "none"}

\* process.poll() is None
is_running(p) == os_processes[p].status \in {"starting", "running"}

\* The process the manager tracks under the name is alive.
tracked_alive(procs, os, server_name) ==
    /\ server_name \in DOMAIN procs
    /\ os[procs[server_name]].status \in {"starting", "running"}

\* del self.processes[server_name]
del(procs, server_name) == [n \in DOMAIN procs \ {server_name} |-> procs[n]]

manager_frame == UNCHANGED <<shared_vars, seq_vars, conc_vars, store_vars>>

\* start_server up to its sleep: an unknown name returns False, a tracked
\* name returns True, otherwise the process is launched and recorded; a
\* Popen that raises returns False.
StartServer(c, server_name, popen_ok) ==
    /\ start_calls[c].pc = "idle"
    /\ IF server_name \notin server_configs
       THEN /\ manager_response' =
                 [op |-> "start_server", name |-> server_name, ok |-> FALSE,
                  alive |-> FALSE]
            /\ UNCHANGED <<processes, os_processes, start_calls>>
       ELSE IF server_name \in DOMAIN processes
       THEN /\ manager_response' =
                 [op |-> "start_server", name |-> server_name, ok |-> TRUE,
                  alive |-> tracked_alive(processes, os_processes, server_name)]
            /\ UNCHANGED <<processes, os_processes, start_calls>>
       ELSE IF ~popen_ok
       THEN /\ manager_response' =
                 [op |-> "start_server", name |-> server_name, ok |-> FALSE,
                  alive |-> FALSE]
            /\ UNCHANGED <<processes, os_processes, start_calls>>
       ELSE /\ Cardinality(launched) < MaxLaunches
            /\ LET process == Cardinality(launched) + 1 IN
                /\ os_processes' =
                     [os_processes EXCEPT ![process] = [status |-> "starting"]]
                /\ processes' =
                     [n \in DOMAIN processes \cup {server_name} |->
                        IF n = server_name THEN process ELSE processes[n]]
                /\ start_calls' =
                     [start_calls EXCEPT ![c] =
                        [pc |-> "sleeping", server_name |-> server_name,
                         process |-> process]]
            /\ UNCHANGED manager_response
    /\ manager_frame

\* start_server after its sleep: True if the process it launched has not
\* exited.
StartServerResume(c) ==
    /\ start_calls[c].pc = "sleeping"
    /\ manager_response' =
         [op |-> "start_server", name |-> start_calls[c].server_name,
          ok |-> is_running(start_calls[c].process),
          alive |-> tracked_alive(processes, os_processes,
                                  start_calls[c].server_name)]
    /\ start_calls' = [start_calls EXCEPT ![c] = CallerIdle]
    /\ UNCHANGED <<processes, os_processes>>
    /\ manager_frame

\* stop_server: the tracked process is terminated and waited for, and its
\* entry deleted.
StopServer(server_name) ==
    /\ IF server_name \notin DOMAIN processes
       THEN UNCHANGED <<processes, os_processes>>
       ELSE /\ os_processes' = [os_processes EXCEPT
                                  ![processes[server_name]] = [status |-> "exited"]]
            /\ processes' = del(processes, server_name)
    /\ manager_response' =
         [op |-> "stop_server", name |-> server_name, ok |-> TRUE,
          alive |-> FALSE]
    /\ UNCHANGED start_calls
    /\ manager_frame

\* The status get_server_status reports for a name.
server_status(server_name) ==
    IF server_name \in DOMAIN processes
    THEN IF is_running(processes[server_name]) THEN "running" ELSE "terminated"
    ELSE "stopped"

\* get_server_status: the status of every configured server; the entry of a
\* process that has terminated is deleted.
GetServerStatus ==
    /\ manager_response' =
         [op |-> "get_server_status",
          status |-> [n \in server_configs |-> server_status(n)]]
    /\ processes' =
         [n \in {m \in DOMAIN processes : is_running(processes[m])} |->
            processes[n]]
    /\ UNCHANGED <<os_processes, start_calls>>
    /\ manager_frame

\* The launched process imports the server module: WeatherMCPServer() is
\* constructed, or raises and the process exits.
ProcessBoot(p, configured) ==
    /\ os_processes[p].status = "starting"
    /\ LET built == WeatherMCPServer(configured, redis_up) IN
       os_processes' = [os_processes EXCEPT ![p] =
          IF built.raised THEN [status |-> "exited"]
          ELSE [status |-> "running", weather_server |-> built.self]]
    /\ UNCHANGED <<processes, start_calls, manager_response>>
    /\ manager_frame

\* A process exits on its own account.
ProcessExit(p) ==
    /\ os_processes[p].status \in {"starting", "running"}
    /\ os_processes' = [os_processes EXCEPT ![p] = [status |-> "exited"]]
    /\ UNCHANGED <<processes, start_calls, manager_response>>
    /\ manager_frame

ManagerInit == StoreInit

ManagerNext ==
    \/ \E c \in Callers, server_name \in ServerNames, popen_ok \in BOOLEAN :
          StartServer(c, server_name, popen_ok)
    \/ \E c \in Callers : StartServerResume(c)
    \/ \E server_name \in ServerNames : StopServer(server_name)
    \/ GetServerStatus
    \/ \E p \in Pids, configured \in BOOLEAN : ProcessBoot(p, configured)
    \/ \E p \in Pids : ProcessExit(p)
    \/ Fail
    \/ Recover

SpecManager == ManagerInit /\ [][ManagerNext]_vars

(***************************************************************************)
(* Properties of listing and invocation                                    *)
(***************************************************************************)
Listed == response.op = "on_list_tools"
Called == response.op = "on_call_tool"

\* The tools of a catalog that carry a tag some held, mapped role permits.
permitted_by_tags(rs, result, mappings) ==
    {t \in Range(result) :
        \E i \in 1..Len(rs) :
            /\ rs[i] \in DOMAIN mappings
            /\ tags(t) \cap Range(mappings[rs[i]]) # {}}

\* The role has an entry in the table and the entry holds the tag "*".
maps_to_wildcard(role, mappings) ==
    role \in DOMAIN mappings /\ "*" \in Range(mappings[role])

\* The held roles that have an entry in the table, in the order held.
mapped_roles(rs, mappings) == SelectSeq(rs, LAMBDA r : r \in DOMAIN mappings)

\* C1: a listing for a caller context with no roles returns the empty list,
\* whatever the catalog holds.
C1_FailSecureListing ==
    (Listed /\ response.roles = <<>>) => response.tools = <<>>

C1_Witness ==
    /\ Listed
    /\ response.roles = <<>>
    /\ response.result = registered_tools
    /\ response.tools = <<>>

\* C2: a tool without the admin prefix is executed only if the filter over
\* the full registered catalog permits it to the caller's roles, listing or
\* no listing before the call.
C2_InvocationFollowsFilter ==
    (Called /\ ~starts_with_admin(response.name) /\ response.outcome = "executed")
        => response.name \in
             Range(filtered_tools(response.roles, registered_tools, role_mappings))

\* C3: a caller context with no roles never gets a tool body executed.
C3_NoRolesNoInvocation ==
    (Called /\ response.roles = <<>>) => response.outcome # "executed"

\* C4: calling an admin-prefixed tool without the role MCPServer.Admin raises
\* PermissionError and the tool body does not run, whatever the tool's tags
\* and the other roles held.
C4_AdminPrefixDenied ==
    (Called /\ starts_with_admin(response.name)
            /\ "MCPServer.Admin" \notin Range(response.roles))
        => response.outcome = "PermissionError"

C4_Witness ==
    /\ Called
    /\ response.name = admin_weather_stats
    /\ response.name \in response.registry
    /\ "Task.All" \in Range(response.roles)
    /\ "MCPServer.Admin" \notin Range(response.roles)
    /\ response.outcome = "PermissionError"

\* C5: a caller holding MCPServer.Admin gets an admin-prefixed tool that the
\* registry holds executed, also when no tag of the tool matches a role held.
C5_AdminInvokesAdminTool ==
    (Called /\ starts_with_admin(response.name)
            /\ "MCPServer.Admin" \in Range(response.roles)
            /\ response.name \in response.registry)
        => response.outcome = "executed"

C5_Witness ==
    /\ Called
    /\ response.name = admin_maintenance
    /\ "MCPServer.Admin" \in Range(response.roles)
    /\ permitted_by_tags(response.roles, <<admin_maintenance>>, role_mappings) = {}
    /\ response.outcome = "executed"

\* C6: a listing for roles that contain Task.All returns the whole catalog,
\* whatever the other roles are and wherever Task.All stands in the list.
C6_WildcardShortCircuit ==
    (Listed /\ "Task.All" \in Range(response.roles))
        => response.tools = response.result

C6_Witness ==
    /\ Listed
    /\ Len(response.roles) = 2
    /\ response.roles[1] \in {"Task.Read", "Super"}
    /\ response.roles[2] = "Task.All"
    /\ response.result = registered_tools
    /\ response.tools = registered_tools

\* C7: over the full catalog, the listing is the entire catalog if and only
\* if some held role maps to the wildcard tag "*" in the table in use.
C7_WildcardFollowsTable ==
    (Listed /\ response.result = registered_tools)
        => ((Range(response.tools) = Range(response.result))
            <=> (\E i \in 1..Len(response.roles) :
                    maps_to_wildcard(response.roles[i], role_mappings)))

\* C8: without Task.All among the roles, the listing holds exactly the
\* catalog tools that carry a tag permitted to some held, mapped role.
C8_TagUnion ==
    (Listed /\ "Task.All" \notin Range(response.roles))
        => Range(response.tools) =
             permitted_by_tags(response.roles, response.result, role_mappings)

C8_Witness ==
    /\ Listed
    /\ role_mappings = default_role_mappings
    /\ response.roles = <<"Task.Read", "Task.Write">>
    /\ response.result = registered_tools
    /\ Range(response.tools) = {get_weather, set_weather_alert}

\* C9: no tool stands twice in the returned list.
C9_NoDuplicates ==
    Listed =>
        \A i, j \in 1..Len(response.tools) :
            response.tools[i] = response.tools[j] => i = j

C9_Witness ==
    /\ Listed
    /\ "Task.All" \notin Range(response.roles)
    /\ \E t \in Range(response.tools) :
        \E i, j \in 1..Len(response.roles) :
            /\ i < j
            /\ t \in permitted_by_tags(<<response.roles[i]>>, <<t>>, role_mappings)
            /\ t \in permitted_by_tags(<<response.roles[j]>>, <<t>>, role_mappings)

\* C10: roles without an entry in the table change nothing: the listing
\* equals the listing for the held roles that have an entry.
C10_UnknownRoleNoOp ==
    (Listed /\ \E i \in 1..Len(response.roles) :
                  response.roles[i] \notin DOMAIN role_mappings)
        => response.tools =
             filtered_tools(mapped_roles(response.roles, role_mappings),
                            response.result, role_mappings)

(***************************************************************************)
(* Properties of the registry sync and of the caller context               *)
(***************************************************************************)
\* The caller context is the unauthenticated default.
unauthenticated ==
    /\ claims = empty_claims
    /\ roles = <<>>
    /\ user_id = None
    /\ oid = None

\* C11: once a listing with a reachable registry has completed, no catalog
\* tool that is missing from the returned list is left in the registry,
\* for the empty role list too.
C11_UnlistedToolsRemoved ==
    (Listed /\ response.fastmcp_context)
        => \A t \in Range(response.result) :
              t \notin Range(response.tools) => t \notin tool_manager

\* C13: a listing depends on the caller's roles and the registered catalog
\* alone: it is what the filter gives for those roles over all registered
\* tools, whichever listings other callers made before.
C13_ListingIgnoresEarlierRequests ==
    Listed => response.tools =
                filtered_tools(response.roles, registered_tools, role_mappings)

\* C15: a credential that fails to decode leaves the caller context at the
\* unauthenticated default and the request goes on to its hook.
C15_DecodeFailureResets ==
    (request.kind = "malformed") => (pc \in {"call_next", "respond"} /\ unauthenticated)

C15_Witness ==
    /\ request.kind = "malformed"
    /\ pc = "call_next"
    /\ tool_manager # ToolNames
    /\ unauthenticated

\* C16: a request without an access token gets the empty caller context,
\* whatever the request before it carried.
C16_FreshContextPerRequest ==
    (request.kind = "none" /\ pc = "call_next")
        => (roles = <<>> /\ user_id = None /\ oid = None)

(***************************************************************************)
(* Properties of overlapping requests                                      *)
(***************************************************************************)
\* The roles the credential of a request carries.
own_roles(credential) == get(credential.claims, "roles", <<>>)

\* C12: a listing that has returned has removed every tool it did not list,
\* also when the registry refused one of its removals.
C12_SyncSurvivesFailedRemoval ==
    \A s \in Slots :
        (responses[s].op = "on_list_tools" /\ responses[s].roles # <<>>)
            => \A t \in Range(responses[s].result) :
                  t \notin Range(responses[s].tools) => t \notin tool_manager

\* C14: every listing and every call decides by the roles of the credential
\* its own request carried.
C14_OwnCredentialDecides ==
    \A s \in Slots :
        (responses[s].op # "none" /\ inflight[s].credential.kind = "jwt")
            => responses[s].roles = own_roles(inflight[s].credential)

(***************************************************************************)
(* Properties of the auth codes                                            *)
(***************************************************************************)
\* C17: of the exchange attempts made for one stored auth code, at most one
\* resolves the subject and is answered with the token; the others get the
\* invalid-or-expired error.
C17_OneExchangePerCode ==
    \A c \in AuthCodes :
        Cardinality({a \in Attempts :
                        /\ attempts[a].auth_code = c
                        /\ attempts[a].response.status = "ok"}) <= 1

\* The code has been stored and neither deleted nor outlived.
resolvable(c) ==
    /\ issued[c].set
    /\ ~issued[c].deleted
    /\ now < issued[c].set_at + issued[c].ttl * Second

\* C18: with one caller at a time, the redemption of a stored code that is
\* still good resolves the subject it was stored with and deletes the code,
\* and every get_auth_code after a deletion returns None until
\* set_auth_code stores the code again.
C18_SequentialSingleUse ==
    [][\A c \in AuthCodes :
        /\ (/\ store_response'.op = "exchange_auth_code"
            /\ store_response'.key = c
            /\ resolvable(c))
              => /\ store_response'.user_oid = issued[c].user_oid
                 /\ issued'[c] = Deleted
        /\ (/\ store_response'.op = "get_auth_code"
            /\ store_response'.key = c
            /\ issued[c] = Deleted)
              => store_response'.user_oid = None]_vars

\* A code stored at this very second has been deleted, and the lookup that
\* follows finds nothing.
C18_Witness ==
    /\ store_response.op = "get_auth_code"
    /\ issued[store_response.key] = Deleted
    /\ now = 0
    /\ store_response.user_oid = None

\* C19: get_auth_code changes no record of the store, and a second
\* get_auth_code for the same code right after the first returns the same
\* subject.
C19_GetAuthCodeIsPureLookup ==
    [][store_response'.op = "get_auth_code"
        => /\ redis' = redis
           /\ (/\ store_response.op = "get_auth_code"
               /\ store_response.key = store_response'.key)
                 => store_response'.user_oid = store_response.user_oid]_vars

\* A lookup has resolved a subject while the store holds a token and the
\* other auth code as well.
C19_Witness ==
    /\ store_response.op = "get_auth_code"
    /\ store_response.user_oid # None
    /\ \E u \in UserOids : redis[_get_token_key(u)].present
    /\ \A c \in AuthCodes : redis[_get_auth_code_key(c)].present

\* C20: get_auth_code resolves a code exactly while the code has been
\* stored, has not been deleted since, and fewer than ttl seconds have
\* passed since it was stored; it then returns the subject stored.
C20_ResolvableUntilDeletedOrExpired ==
    store_response.op = "get_auth_code"
        => /\ (store_response.user_oid # None) <=> resolvable(store_response.key)
           /\ resolvable(store_response.key)
                => store_response.user_oid = issued[store_response.key].user_oid

\* A code stored with the default ttl, never deleted, is looked up once the
\* 120 seconds have passed and is not found.
C20_Witness ==
    /\ store_response.op = "get_auth_code"
    /\ issued[store_response.key].set
    /\ ~issued[store_response.key].deleted
    /\ issued[store_response.key].ttl = default_auth_code_ttl
    /\ now >= issued[store_response.key].set_at + default_auth_code_ttl * Second
    /\ store_response.user_oid = None

(***************************************************************************)
(* Properties of the permission query and the role-mapping table           *)
(***************************************************************************)
\* The tags the table gives to the roles rs holds.
mapped_tags(rs, mappings) ==
    UNION {Range(mappings[r]) : r \in Range(rs) \cap DOMAIN mappings}

\* C28: get_user_permissions returns the caller's user id, oid and roles,
\* and as permissions the tags the table maps the held roles to, each tag
\* once; the call leaves the caller context, the table, the registry and
\* the store as they were.
C28_PermissionsQueryReadOnly ==
    [][(permissions = NoPermissions /\ permissions' # NoPermissions)
        => /\ permissions'.user_id = user_id
           /\ permissions'.oid = oid
           /\ permissions'.roles = roles
           /\ Range(permissions'.permissions) = mapped_tags(roles, role_mappings)
           /\ Cardinality(Range(permissions'.permissions))
                = Len(permissions'.permissions)
           /\ UNCHANGED <<shared_vars, conc_vars, store_vars, server_vars>>]_vars

\* The query has answered a caller whose two roles share a tag.
C28_Witness ==
    /\ permissions # NoPermissions
    /\ Len(roles) = 2
    /\ roles[1] # roles[2]
    /\ Range(roles) \subseteq DOMAIN role_mappings
    /\ Range(role_mappings[roles[1]]) \cap Range(role_mappings[roles[2]]) # {}
    /\ Len(permissions.permissions) = 2

\* C30: the table the middleware uses is the table it was given, whatever
\* that table holds, and the default table when it was given none; nothing
\* changes it afterwards.
C30_SuppliedTableIsUsed ==
    role_mappings = IF supplied_mappings.kind = "none"
                    THEN default_role_mappings
                    ELSE supplied_mappings.table

(***************************************************************************)
(* Properties of the tokens                                                *)
(***************************************************************************)
\* The last call was op, and it was answered by a server that is up.
answered(op) == store_response.op = op /\ redis_up

\* C21: a save_token of a record that carries expires_at leaves, under the
\* subject's key, that record (with stored_at and user_oid added) and a
\* time to live of max(60, expires_at - now) whole seconds, whether
\* expires_at lies in the future, is now, or lies in the past, and whatever
\* the key held before.
C21_SaveTokenTtl ==
    (answered("save_token") /\ "expires_at" \in DOMAIN store_response.given)
        => LET held  == redis[_get_token_key(store_response.key)]
               given == store_response.given
           IN  /\ store_response.ok
               /\ held.present
               /\ \A k \in DOMAIN given : held.value[k] = given[k]
               /\ held.value.user_oid = store_response.key
               /\ held.value.stored_at = now
               /\ held.expire_at
                    = now + max(min_token_ttl, int(given.expires_at - now)) * Second

\* A record whose expires_at has passed has been saved, and is kept for the
\* 60 seconds of the floor.
C21_Witness ==
    /\ answered("save_token")
    /\ "expires_at" \in DOMAIN store_response.given
    /\ store_response.given.expires_at < now
    /\ redis[_get_token_key(store_response.key)].expire_at
         = now + min_token_ttl * Second

\* C22: a token saved with expires_at = now + 30 is stored with a time to
\* live of 60 seconds; a load_token right after the save returns it; and
\* load_token never returns it once the 60 seconds have passed.
C22_FloorTtlThenAbsent ==
    [][/\ (/\ store_response'.op = "save_token"
           /\ redis_up
           /\ "expires_at" \in DOMAIN store_response'.given
           /\ store_response'.given.expires_at = now + 30 * Second)
             => redis'[_get_token_key(store_response'.key)].expire_at
                  = now + min_token_ttl * Second
       /\ (/\ store_response.op = "save_token"
           /\ redis_up
           /\ "expires_at" \in DOMAIN store_response.given
           /\ store_response.given.expires_at = now + 30 * Second
           /\ store_response'.op = "load_token"
           /\ store_response'.key = store_response.key)
             => /\ store_response'.token_data # NoRecord
                /\ store_response'.token_data.expires_at
                     = store_response.given.expires_at
       /\ (/\ store_response'.op = "load_token"
           /\ store_response'.token_data # NoRecord
           /\ "expires_at" \in DOMAIN store_response'.token_data
           /\ store_response'.token_data.expires_at
                = store_response'.token_data.stored_at + 30 * Second)
             => now < store_response'.token_data.stored_at
                        + min_token_ttl * Second]_vars

\* A token that ends 30 seconds after it was saved has been loaded.
C22_Witness ==
    /\ answered("load_token")
    /\ store_response.token_data # NoRecord
    /\ store_response.token_data.expires_at = now + 30 * Second
    /\ store_response.token_data.stored_at = now
    /\ redis[_get_token_key(store_response.key)].expire_at
         = now + min_token_ttl * Second

\* The expires_at of a stored record, 0 when it has none.
expires_at_of(entry) == get(entry.value, "expires_at", 0)

\* C23: load_token reports a held record whose expires_at is at or before
\* the time of the call absent and removes it from the store; it returns a
\* record whose expires_at is later and leaves the store as it was.
C23_LoadTokenDropsStale ==
    (answered("load_token") /\ store_response.held.present)
        => LET held == store_response.held
               key  == _get_token_key(store_response.key)
           IN  IF expires_at_of(held) <= now
               THEN /\ store_response.token_data = NoRecord
                    /\ ~redis[key].present
               ELSE /\ store_response.token_data = held.value
                    /\ redis[key] = held

\* A record whose expires_at has passed was held, and the load has removed
\* it.
C23_Witness ==
    /\ answered("load_token")
    /\ store_response.held.present
    /\ "expires_at" \in DOMAIN store_response.held.value
    /\ store_response.held.value.expires_at <= now
    /\ ~redis[_get_token_key(store_response.key)].present

\* The freshness of a token was asked for a caller with an oid, by a
\* middleware that has a store, of a server that is up, and the store held a
\* token for the caller that carries expires_at.
freshness_decided ==
    /\ answered("validate_token_freshness")
    /\ store_response.key # None
    /\ redis_token_store # None
    /\ store_response.held.present
    /\ "expires_at" \in DOMAIN store_response.held.value

\* C25, as claimed: the answer is false when expires_at is less than 300
\* seconds from now, and true otherwise.
C25_FreshnessBuffer ==
    freshness_decided
        => (store_response.fresh
              <=> ~(store_response.held.value.expires_at
                      < now + freshness_buffer * Second))

\* C25, amended: the answer is false when expires_at is 300 seconds or less
\* from now, and true when it is more than 300 seconds from now.
C25_FreshnessBufferAmended ==
    freshness_decided
        => (store_response.fresh
              <=> store_response.held.value.expires_at
                    > now + freshness_buffer * Second)

\* Both sides of the buffer have been asked for; this one is a token a
\* fraction of a second over it.
C25_Witness ==
    /\ freshness_decided
    /\ store_response.fresh
    /\ store_response.held.value.expires_at
         = now + freshness_buffer * Second + 1

\* C26: validate_token_freshness never raises, and it answers true only
\* for a caller with an oid, with a store configured and answering, that
\* holds a record for the caller whose expires_at is more than 300 seconds
\* away.
C26_FreshOnlyWithLiveToken ==
    store_response.op = "validate_token_freshness"
        => /\ ~store_response.raised
           /\ store_response.fresh
                => /\ store_response.key # None
                   /\ redis_token_store # None
                   /\ redis_up
                   /\ store_response.held.present
                   /\ expires_at_of(store_response.held)
                        > now + freshness_buffer * Second

\* The server is down while it holds a token of the caller that would be
\* fresh, and the answer is false.
C26_Witness ==
    /\ store_response.op = "validate_token_freshness"
    /\ ~redis_up
    /\ redis_token_store # None
    /\ store_response.held.present
    /\ expires_at_of(store_response.held) > now + freshness_buffer * Second
    /\ ~store_response.fresh
    /\ ~store_response.raised

(***************************************************************************)
(* Properties of the store under failure, and of the sessions              *)
(***************************************************************************)
\* C24: a store method called while the server does not answer returns its
\* negative value (False, None in place of a subject or a record, or the
\* empty list) and does not raise.
C24_FailuresBecomeNegative ==
    (store_response.op # "none" /\ ~redis_up)
        => /\ ~store_response.raised
           /\ store_response.op \in {"save_token", "delete_token",
                                     "set_auth_code", "delete_auth_code",
                                     "save_session", "delete_session",
                                     "health_check"}
                => ~store_response.ok
           /\ store_response.op = "load_token"
                => store_response.token_data = NoRecord
           /\ store_response.op = "get_auth_code"
                => store_response.user_oid = None
           /\ store_response.op = "load_session"
                => store_response.session_data = NoRecord
           /\ store_response.op = "get_user_sessions"
                => store_response.sessions = <<>>

\* The server is down while it holds a session of the user asked for, and
\* get_user_sessions has returned the empty list.
C24_Witness ==
    /\ ~redis_up
    /\ store_response.op = "get_user_sessions"
    /\ store_response.sessions = <<>>
    /\ \E i \in SessionIds :
          /\ redis[_get_session_key(i)].present
          /\ get(redis[_get_session_key(i)].value, "user_oid", None)
               = store_response.key

\* C29: get_user_sessions(s) returns the ids of the sessions the store
\* holds, their time to live not yet over, whose payload names s as
\* user_oid: each of them once, and no other id.
C29_SessionsOfSubject ==
    answered("get_user_sessions")
        => /\ Range(store_response.sessions)
                = {i \in SessionIds :
                      /\ redis[_get_session_key(i)].present
                      /\ redis[_get_session_key(i)].expire_at > now
                      /\ get(redis[_get_session_key(i)].value, "user_oid", None)
                           = store_response.key}
           /\ Cardinality(Range(store_response.sessions))
                = Len(store_response.sessions)

\* The store holds a session of each user, and only the one of the user
\* asked for is returned.
C29_Witness ==
    /\ answered("get_user_sessions")
    /\ Len(store_response.sessions) = 1
    /\ \A i \in SessionIds : redis[_get_session_key(i)].present
    /\ \E i \in SessionIds :
          get(redis[_get_session_key(i)].value, "user_oid", None)
             \notin {None, store_response.key}

(***************************************************************************)
(* Properties of saves and a load that overlap                             *)
(***************************************************************************)
\* The records the saves of the race have written so far.
written == {racers[r].value : r \in {q \in Savers : racers[q].pc = "done"}}

\* C27: when two save_token calls, or two save_session calls, for one key
\* overlap, whatever the key holds is the whole record of one of them and
\* never a mix of fields of both; once both have returned the key holds
\* one of the two records (load_token's deletion of a stale record set
\* aside); and a load that overlaps them returns None or the whole record
\* of one of them.
C27_OneCompleteRecord ==
    /\ \A key \in RaceKeys :
          redis[key].present => redis[key].value \in written
    /\ ((\A r \in Savers : racers[r].pc = "done")
            /\ (racers["load"].pc # "start" => ~racers["load"].deleted))
          => \E key \in RaceKeys : redis[key].present
    /\ racers["load"].pc = "done"
          => \/ racers["load"].loaded = NoRecord
             \/ racers["load"].loaded \in written

\* Both saves have returned, with records of different fields; the load
\* between them returned the record of the first, and the key holds the
\* record of the second.
C27_Witness ==
    /\ \A r \in Savers : racers[r].pc = "done"
    /\ DOMAIN racers["save1"].value # DOMAIN racers["save2"].value
    /\ racers["load"].pc = "done"
    /\ racers["load"].loaded # NoRecord
    /\ \E key \in RaceKeys :
          /\ redis[key].present
          /\ redis[key].value \in written
          /\ redis[key].value # racers["load"].loaded

(***************************************************************************)
(* Properties of the listing against role order and against invocation     *)
(***************************************************************************)
\* The lists that hold the roles of rs in some order.
orderings(rs) ==
    {[i \in 1..Len(rs) |-> rs[f[i]]] : f \in Permutations(1..Len(rs))}

\* C32: over one catalog, the set of tools a listing returns is the same
\* for every order in which the caller's roles stand in the roles list.
C32_RoleOrderIrrelevant ==
    Listed =>
        \A rs \in orderings(response.roles) :
            Range(filtered_tools(rs, response.result, role_mappings))
              = Range(response.tools)

\* Two roles that each permit a tool of their own, held in the order that
\* lists the tools against the order of the catalog.
C32_Witness ==
    /\ Listed
    /\ response.roles = <<"Task.Write", "Task.Read">>
    /\ response.tools = <<set_weather_alert, get_weather>>
    /\ filtered_tools(<<"Task.Read", "Task.Write">>, response.result,
                      role_mappings) = <<get_weather, set_weather_alert>>

\* C33: every tool a listing returns is executed, and no PermissionError
\* raised, when the caller of the listing invokes it with the same roles on
\* the registry as the listing left it.
C33_ListedToolsInvocable ==
    Listed =>
        \A t \in Range(response.tools) :
            call_outcome(t, response.roles, tool_manager) = "executed"

\* C33, amended: the same of every tool returned whose name does not begin
\* with the admin prefix, and of every tool returned when the roles include
\* MCPServer.Admin.
C33_ListedToolsInvocableUnlessAdminGate ==
    Listed =>
        \A t \in Range(response.tools) :
            (~starts_with_admin(t) \/ "MCPServer.Admin" \in Range(response.roles))
                => call_outcome(t, response.roles, tool_manager) = "executed"

\* A listing for MCPServer.Admin and Task.Write has returned an admin tool
\* and a tool without the prefix, and both can be invoked.
C33_Witness ==
    /\ Listed
    /\ response.roles = <<"MCPServer.Admin", "Task.Write">>
    /\ {admin_weather_stats, set_weather_alert} \subseteq Range(response.tools)
    /\ \A t \in Range(response.tools) :
          call_outcome(t, response.roles, tool_manager) = "executed"

(***************************************************************************)
(* Properties of /auth/exchange with a code that is no good                *)
(***************************************************************************)
\* C36: /auth/exchange with no auth code, or with a code that was never
\* stored, has been redeemed or deleted, or has outlived its time to live,
\* returns an error and leaves every key of the store as it was.
C36_BadCodeChangesNothing ==
    [][\A c \in AuthCodes \cup {None} :
        (/\ store_response'.op = "exchange_auth_code"
         /\ store_response'.key = c
         /\ (c = None \/ ~resolvable(c)))
            => /\ store_response'.response.status = "error"
               /\ redis' = redis]_vars

\* A code that has outlived its time to live was given to /auth/exchange
\* while the token of its subject is still held: an error came back.
C36_Witness ==
    /\ store_response.op = "exchange_auth_code"
    /\ store_response.key \in AuthCodes
    /\ issued[store_response.key].set
    /\ ~issued[store_response.key].deleted
    /\ now >= issued[store_response.key].set_at
                + issued[store_response.key].ttl * Second
    /\ redis[_get_token_key(issued[store_response.key].user_oid)].present
    /\ store_response.response = invalid_or_expired

(***************************************************************************)
(* Properties of load_token against save_token                             *)
(***************************************************************************)
\* C34: however a load_token and the save_token calls for one subject
\* overlap, the deletion load_token sends for a stale record removes no
\* record whose expires_at lies in the future: a live record a save has
\* written is still held when the calls have returned.
C34_DeletionSparesLiveRecord ==
    (racers["load"].pc = "done" /\ racers["load"].deleted)
        => ~(/\ racers["load"].removed.present
             /\ expires_at_of(racers["load"].removed) > now)

\* C35: a load_token that finds a record without expires_at, which
\* save_token has stored for 3600 seconds and the store still holds,
\* returns that record.
C35_NoExpiresAtLoadable ==
    (/\ answered("load_token")
     /\ store_response.held.present
     /\ "expires_at" \notin DOMAIN store_response.held.value)
        => store_response.token_data = store_response.held.value

RetryDelays == {0, 1}

\* A record without the time it was written at.
without_timestamps(value) ==
    [k \in DOMAIN value \ {"stored_at", "created_at"} |-> value[k]]

\* The keys a store holds and what their records say, times to live and
\* timestamps set aside.
contents(store) ==
    [k \in DOMAIN store |->
        IF store[k].present
        THEN [present |-> TRUE, value |-> without_timestamps(store[k].value)]
        ELSE Absent]

\* A call has led to the store once, and the same call made again to the
\* store again: both hold the same.
same_contents(once, again) == contents(again.redis) = contents(once.redis)

\* C31: a save_token, delete_token, set_auth_code, delete_auth_code,
\* save_session or delete_session made a second time with the same
\* arguments leaves the keys of the store and the contents of their
\* records, the timestamps stored_at and created_at set aside, as the first
\* call left them.
C31_RetryChangesNothing ==
    \A d \in RetryDelays :
        /\ \A u \in UserOids, td \in TokenInputs(now) \cup RoundTripData(now) :
              LET once  == call(redis_up, redis,
                                save_token(redis, u, td, now), FALSE)
                  again == call(redis_up, once.redis,
                                save_token(once.redis, u, td, now + d), FALSE)
              IN  same_contents(once, again)
        /\ \A u \in UserOids :
              LET once  == call(redis_up, redis, delete_token(redis, u), FALSE)
                  again == call(redis_up, once.redis,
                                delete_token(once.redis, u), FALSE)
              IN  same_contents(once, again)
        /\ \A c \in AuthCodes, u \in UserOids, ttl \in Ttls :
              LET once  == call(redis_up, redis,
                                set_auth_code(redis, c, u, ttl, now), FALSE)
                  again == call(redis_up, once.redis,
                                set_auth_code(once.redis, c, u, ttl, now + d),
                                FALSE)
              IN  same_contents(once, again)
        /\ \A c \in AuthCodes :
              LET once  == call(redis_up, redis, delete_auth_code(redis, c),
                                FALSE)
                  again == call(redis_up, once.redis,
                                delete_auth_code(once.redis, c), FALSE)
              IN  same_contents(once, again)
        /\ \A i \in SessionIds, sd \in SessionData, ttl \in SessionTtls :
              LET once  == call(redis_up, redis,
                                save_session(redis, i, sd, ttl, now), FALSE)
                  again == call(redis_up, once.redis,
                                save_session(once.redis, i, sd, ttl, now + d),
                                FALSE)
              IN  same_contents(once, again)
        /\ \A i \in SessionIds :
              LET once  == call(redis_up, redis, delete_session(redis, i),
                                FALSE)
                  again == call(redis_up, once.redis,
                                delete_session(once.redis, i), FALSE)
              IN  same_contents(once, again)

\* The store answers and holds a token, an auth code and a session, so that
\* the saves overwrite and the deletions remove; an auth code has just been
\* stored over the one held.
C31_Witness ==
    /\ redis_up
    /\ store_response.op = "set_auth_code"
    /\ store_response.ok
    /\ \E u \in UserOids : redis[_get_token_key(u)].present
    /\ \E c \in AuthCodes :
          /\ redis[_get_auth_code_key(c)].present
          /\ redis[_get_auth_code_key(c)].value.user_oid # "oid-alice"
    /\ \E i \in SessionIds : redis[_get_session_key(i)].present

(***************************************************************************)
(* Properties of the server and of its manager                             *)
(***************************************************************************)
\* C38: a WeatherMCPServer that has been constructed has the JWT verifier
\* for the auth of its MCP server and the AuthorizationMiddleware
\* installed.
C38_ServerBuiltWithAuth ==
    \A p \in Pids :
        os_processes[p].status = "running"
            => /\ os_processes[p].weather_server.auth = "bearer_auth"
               /\ "AuthorizationMiddleware"
                    \in Range(os_processes[p].weather_server.middleware)

\* C39: start_server returns True only when the process of the name is
\* running as it returns, and the processes alive under one name are never
\* more than one.
C39_StartedMeansRunning ==
    /\ (manager_response.op = "start_server" /\ manager_response.ok)
          => manager_response.alive
    /\ Cardinality({p \in Pids : is_running(p)}) <= Cardinality(server_configs)

====
